---- MODULE Spec2Model ----
(***************************************************************************)
(* Model of the CryptoBot futures simulator (src/app.py, src/store.py,     *)
(* src/coinbase.py): the ledger store, the price oracle as the code sees   *)
(* it, the sweep (_update_positions) and the interactive commands of       *)
(* handle_mention.                                                         *)
(*                                                                         *)
(* Amounts.  Python floats are modelled as exact rationals.  Prices are    *)
(* whole dollars; balances, margins and PNL are integers counting          *)
(* 1/Scale dollar, where every entry price divides Scale, so that the      *)
(* quotient in _calculate_pnl is exact.  Optional values use None.         *)
(*                                                                         *)
(* Time.  One unit of `now` is one candle bucket; the candle of bucket t   *)
(* of symbol c has low = high = hist[c][t+1], the price during t, and the  *)
(* spot price is the price of the current bucket.                          *)
(***************************************************************************)
EXTENDS Integers, Sequences, FiniteSets, TLC

VARIABLES
    users,      \* APP_DATA.users: user id -> [usd, positions, orders]
    next_id,    \* APP_DATA.next_id
    disk,       \* the document in DATA_FILE
    now,        \* int(time.time())
    hist,       \* price oracle: symbol -> prices of buckets 0..now
    hpc,        \* handle_mention: "idle" | "cmd" (after the inline sweep) | "reply"
                \* | "raised" (left by an exception) | "save" (at save_data) |
                \* "dump" (inside save_data) | "stopped" (the process has ended)
    huser,      \* handle_mention: event["user"]
    hmsgs,      \* handle_mention: fill_msgs, position_msgs of its sweep
    hcmd,       \* handle_mention: the parsed command and the reply said
    bpc,        \* _background_position_updater: "sleep" | "orders" | "positions" |
                \* "assign" | "done" (inside _update_positions) | "post" |
                \* "dead" |
                \* "chunks" | "return" (inside _first_trigger_hit_timestamp)
    bmsgs,      \* _background_position_updater: fill_msgs, position_msgs
    bloc        \* locals of the call the background thread is in:
                \* _update_positions, or _first_trigger_hit_timestamp

vars == <<users, next_id, disk, now, hist, hpc, huser, hmsgs, hcmd, bpc, bmsgs, bloc>>

----------------------------------------------------------------------------
(* Bounds and input sets *)

MaxTime == 2
MaxId == 2
MaxUsd == 100
MaxTriggers == 1
MaxPortfolioTriggers == 2
MaxCandles == 2

Users == {"u1", "u2"}
UserOrder == <<"u1", "u2">>
ADMIN_ID == "u1"
Symbols == {"BTC", "ETH"}
PricesOf(c) == IF c = "BTC" THEN {45, 50, 55} ELSE {100}
InitialPrice(c) == IF c = "BTC" THEN 50 ELSE 100
Scale == 4 * 9 * 25 * 11 * 17
Dollars(n) == n * Scale

LONG == "LONG"
SHORT == "SHORT"
None == -1
Err == -2

\* The amounts and leverages a command may name; without rec only those
\* that pass validation, since a rejected open changes nothing.
MarginInputs(rec) == IF rec THEN {0, Dollars(100)} ELSE {Dollars(100)}
LeverageInputs(rec) == IF rec THEN {0, 1, 10, 50, 51} ELSE {10}
LimitInputs(c) == IF c = "BTC" THEN {None, 0, 50} ELSE {None, 0}
TriggerInputs == {0, 55}
AdminAmounts == {Dollars(100)}

NoMsgs == [fill |-> <<>>, pos |-> <<>>]

\* What the oracle answers during one batch of calls.
OracleUp == [spotFail |-> {}, candleFail |-> {}, candleEmpty |-> {},
             candleEarly |-> {}]
OracleAnswers ==
    {OracleUp}
    \cup {[OracleUp EXCEPT !.spotFail = {c}] : c \in Symbols}
    \cup {[OracleUp EXCEPT !.candleFail = {c}] : c \in Symbols}
    \cup {[OracleUp EXCEPT !.candleEmpty = {c}] : c \in Symbols}
    \cup {[OracleUp EXCEPT !.spotFail = Symbols, !.candleFail = Symbols]}

\* What the oracle answers to the spot request of a command about symbol c.
SpotAnswers(c) == {OracleUp, [OracleUp EXCEPT !.spotFail = {c}]}

\* handle_mention's parsed command and the reply it says.
NoCmd == [op |-> "", kind |-> "", side |-> "", margin |-> 0, crypto |-> "",
          lev |-> 0, limit |-> None, spot |-> None, id |-> None,
          setting |-> "", amount |-> 0, target |-> "", pnl |-> 0]
NoLoc == [uid |-> "", todo |-> <<>>, fill |-> <<>>, pos |-> <<>>, changed |-> FALSE]

Min(S) == CHOOSE x \in S : \A y \in S : x <= y
Max(S) == CHOOSE x \in S : \A y \in S : x >= y

----------------------------------------------------------------------------
(* store.py *)

EmptyUsers == [u \in {} |-> 0]

\* Direction.from_raw: normalised "BUY"/"LONG" and "SELL"/"SHORT"; anything
\* else raises ValueError (Err).
Direction_from_raw(raw) ==
    IF raw \in {"BUY", "LONG"} THEN LONG
    ELSE IF raw \in {"SELL", "SHORT"} THEN SHORT
    ELSE "ValueError"

\* Position(...) as handle_mention constructs it: the optional trigger fields
\* take their dataclass defaults.
Position(id, crypto, side, ts, entry, margin, lev) ==
    [position_id |-> id, crypto |-> crypto, side |-> side, timestamp |-> ts,
     entry |-> entry, margin |-> margin, lev |-> lev,
     take_profit |-> None, stop_loss |-> None,
     tp_timestamp |-> None, stop_timestamp |-> None]

\* Position.liquidation_price as the exact fraction num/den; NoPrice stands
\* for the None it returns if lev <= 0.
\* LONG: entry * (1 - 1/lev) = entry*(lev-1)/lev; SHORT: entry*(lev+1)/lev.
NoPrice == [num |-> 0, den |-> 0]

\* Mutant of liquidation_price: the SHORT threshold is computed as the LONG one.
liquidation_price_short_as_long(p) ==
    IF p.lev <= 0 THEN NoPrice
    ELSE [num |-> p.entry * (p.lev - 1), den |-> p.lev]

\* Position.liquidation_price
liquidation_price(p) ==
    IF p.lev <= 0 THEN NoPrice
    ELSE IF p.side = LONG
         THEN [num |-> p.entry * (p.lev - 1), den |-> p.lev]
         ELSE [num |-> p.entry * (p.lev + 1), den |-> p.lev]

\* Mutant of next_position_id: the counter is not advanced.
next_position_id_stuck(nid) == [pos_id |-> nid, next_id |-> nid]

\* AppData.next_position_id: the id handed out and the counter after it.
next_position_id(nid) == [pos_id |-> nid, next_id |-> nid + 1]

\* Position.from_dict: side through Direction.from_raw with LONG as the
\* fallback, lev = int(raw.get("lev", 0)), the other fields copied (an absent
\* key reads as None).
Position_from_dict(raw) ==
    [raw EXCEPT !.side = IF Direction_from_raw(raw.side) = "ValueError"
                         THEN LONG ELSE Direction_from_raw(raw.side),
                !.lev = IF raw.lev = None THEN 0 ELSE raw.lev]

\* Mutant of Position.to_dict: the trigger timestamps are not written.
Position_to_dict_without_stamps(p) ==
    [position_id |-> p.position_id, crypto |-> p.crypto, side |-> p.side,
     timestamp |-> p.timestamp, entry |-> p.entry, margin |-> p.margin,
     lev |-> p.lev, take_profit |-> p.take_profit, stop_loss |-> p.stop_loss,
     tp_timestamp |-> None, stop_timestamp |-> None]

\* Position.to_dict: field by field; the Direction is written as its value.
Position_to_dict(p) ==
    [position_id |-> p.position_id, crypto |-> p.crypto, side |-> p.side,
     timestamp |-> p.timestamp, entry |-> p.entry, margin |-> p.margin,
     lev |-> p.lev, take_profit |-> p.take_profit, stop_loss |-> p.stop_loss,
     tp_timestamp |-> p.tp_timestamp, stop_timestamp |-> p.stop_timestamp]

UserData_from_dict(raw) ==
    [usd |-> raw.usd,
     positions |-> [i \in DOMAIN raw.positions |-> Position_from_dict(raw.positions[i])],
     orders |-> [i \in DOMAIN raw.orders |-> Position_from_dict(raw.orders[i])]]

UserData_to_dict(ud) ==
    [usd |-> ud.usd,
     positions |-> [i \in DOMAIN ud.positions |-> Position_to_dict(ud.positions[i])],
     orders |-> [i \in DOMAIN ud.orders |-> Position_to_dict(ud.orders[i])]]

\* UserData(): a fresh account.
NewUser == [usd |-> 0, positions |-> <<>>, orders |-> <<>>]

\* AppData.to_dict, as save_data writes it to DATA_FILE.
AppData_to_dict(us, nid) ==
    [exists |-> TRUE,
     users |-> [u \in DOMAIN us |-> UserData_to_dict(us[u])],
     next_id |-> nid]

save_data(us, nid) == AppData_to_dict(us, nid)

\* load_data: AppData.from_dict of the file, AppData() if there is none.
load_data(doc) ==
    IF doc.exists
    THEN [users |-> [u \in DOMAIN doc.users |-> UserData_from_dict(doc.users[u])],
          next_id |-> doc.next_id]
    ELSE [users |-> EmptyUsers, next_id |-> 0]

\* init_store, lines 197-199 and 210-212: a record without id takes the next
\* one.  s = [p, next_id, changed].
BackfillId(s) ==
    IF s.p.position_id # None THEN s
    ELSE [p |-> [s.p EXCEPT !.position_id = next_position_id(s.next_id).pos_id],
          next_id |-> next_position_id(s.next_id).next_id,
          changed |-> TRUE]

\* init_store, lines 200-202 and 213-215.
BackfillTimestamp(s, t) ==
    IF s.p.timestamp # None THEN s
    ELSE [s EXCEPT !.p.timestamp = t, !.changed = TRUE]

\* init_store, lines 203-205.
BackfillTpTimestamp(s) ==
    IF s.p.take_profit # None /\ s.p.tp_timestamp = None
    THEN [s EXCEPT !.p.tp_timestamp = s.p.timestamp, !.changed = TRUE]
    ELSE s

\* init_store, lines 206-208.
BackfillStopTimestamp(s) ==
    IF s.p.stop_loss # None /\ s.p.stop_timestamp = None
    THEN [s EXCEPT !.p.stop_timestamp = s.p.timestamp, !.changed = TRUE]
    ELSE s

\* The body of init_store's loop over positions (isPos) and over orders.
BackfillRecord(s, t, isPos) ==
    IF isPos
    THEN BackfillStopTimestamp(BackfillTpTimestamp(BackfillTimestamp(BackfillId(s), t)))
    ELSE BackfillTimestamp(BackfillId(s), t)

\* The record is back in its list.  Result [out, next_id, changed].
Backfilled(out, s) ==
    [out |-> Append(out, s.p), next_id |-> s.next_id, changed |-> s.changed]

\* The inner loops of init_store over one list.  acc = [out, next_id, changed].
RECURSIVE BackfillList(_, _, _, _, _)
BackfillList(list, i, acc, t, isPos) ==
    IF i > Len(list) THEN acc
    ELSE BackfillList(list, i + 1,
             Backfilled(acc.out,
                 BackfillRecord([p |-> list[i], next_id |-> acc.next_id,
                                 changed |-> acc.changed], t, isPos)),
             t, isPos)

\* One user of init_store's outer loop, after both inner loops.
\* acc = [users, next_id, changed].
BackfillStore(acc, u, positions, os) ==
    [users |-> [acc.users EXCEPT ![u].positions = positions, ![u].orders = os.out],
     next_id |-> os.next_id,
     changed |-> os.changed]

\* The orders loop, after the positions loop returned ps.
BackfillOrders(acc, u, ps, t) ==
    BackfillStore(acc, u, ps.out,
        BackfillList(acc.users[u].orders, 1,
            [out |-> <<>>, next_id |-> ps.next_id, changed |-> ps.changed],
            t, FALSE))

BackfillUser(acc, u, t) ==
    BackfillOrders(acc, u,
        BackfillList(acc.users[u].positions, 1,
            [out |-> <<>>, next_id |-> acc.next_id, changed |-> acc.changed],
            t, TRUE),
        t)

\* init_store's loop over APP_DATA.users.values(), users in UserOrder.
RECURSIVE BackfillUsers(_, _, _)
BackfillUsers(k, acc, t) ==
    IF k > Len(UserOrder) THEN acc
    ELSE BackfillUsers(k + 1,
             IF UserOrder[k] \in DOMAIN acc.users
             THEN BackfillUser(acc, UserOrder[k], t) ELSE acc,
             t)

\* Mutant of init_store, lines 217-218: the backfill is not saved.
BackfillSave_skipped(doc, r) ==
    [users |-> r.users, next_id |-> r.next_id, disk |-> doc]

\* init_store, lines 217-218: save if anything was backfilled.
BackfillSave(doc, r) ==
    [users |-> r.users, next_id |-> r.next_id,
     disk |-> IF r.changed THEN save_data(r.users, r.next_id) ELSE doc]

\* init_store: load, backfill, save.  Result [users, next_id, disk].
init_store(doc, t) ==
    BackfillSave(doc, BackfillUsers(1, load_data(doc) @@ [changed |-> FALSE], t))

----------------------------------------------------------------------------
(* coinbase.py.  h is the oracle's price history, t the value of
   int(time.time()), and o what the oracle answers during the call:
   o.spotFail, o.candleFail: symbols whose spot / candle request raises;
   o.candleEmpty: symbols whose candle request returns an empty list;
   o.candleEarly: symbols whose candle request also returns the candle of
   the bucket before the start asked for. *)

Frac(n) == [num |-> n, den |-> 1]

\* get_price: the spot price, or Err for the ValueError it raises.
get_price(crypto, h, t, o) ==
    IF crypto \in o.spotFail THEN Err ELSE h[crypto][t + 1]

\* The candles [timestamp, low, high] the range endpoint returns for
\* [start, stop], all chunks of the request loop together.
Returned(crypto, start, stop, h, o) ==
    IF crypto \in o.candleEmpty THEN {}
    ELSE {[ts |-> k, low |-> h[crypto][k + 1], high |-> h[crypto][k + 1]] :
            k \in (IF crypto \in o.candleEarly /\ start >= 1
                   THEN start - 1 ELSE start) .. stop}

\* _first_trigger_hit_timestamp, lines 150-151: the candles returned that
\* lie in [start, stop].
Candles(crypto, start, stop, h, o) ==
    {k \in Returned(crypto, start, stop, h, o) : k.ts >= start /\ k.ts <= stop}

\* The comparison of a price with the trigger price (a fraction).
Crosses(value, price, trigger_on_or_above) ==
    IF trigger_on_or_above
    THEN value * price.den >= price.num
    ELSE value * price.den <= price.num

\* _first_trigger_hit_timestamp, lines 110-114 and 161-166: the spot check.
SpotTimestamp(current, price, trigger_on_or_above, stop_ts) ==
    IF current = Err THEN Err
    ELSE IF Crosses(current, price, trigger_on_or_above) THEN stop_ts
    ELSE None

\* _first_trigger_hit_timestamp, lines 138-157: the first candle, in order of
\* timestamp, that hits.
Earliest(hits) ==
    IF hits = {} THEN None ELSE Min({k.ts : k \in hits})

\* _first_trigger_hit_timestamp, lines 122-168: the scan of the candles.
CandleTimestamp(candles, price, trigger_on_or_above, start_ts, stop_ts, spot) ==
    IF candles = {} THEN spot
    ELSE Earliest({k \in candles :
                     /\ ~(k.ts < start_ts \/ k.ts > stop_ts)
                     /\ Crosses(IF trigger_on_or_above THEN k.high ELSE k.low,
                                price, trigger_on_or_above)})

\* _first_trigger_hit_timestamp: a timestamp, None, or Err (ValueError).
first_trigger_hit_timestamp(crypto, price, trigger_on_or_above, start_ts, stop_ts, h, o) ==
    IF start_ts >= stop_ts
    THEN SpotTimestamp(get_price(crypto, h, stop_ts, o), price,
                       trigger_on_or_above, stop_ts)
    ELSE IF crypto \in o.candleFail THEN Err
    ELSE CandleTimestamp(Candles(crypto, start_ts, stop_ts, h, o), price,
             trigger_on_or_above, start_ts, stop_ts,
             SpotTimestamp(get_price(crypto, h, stop_ts, o), price,
                           trigger_on_or_above, stop_ts))

\* _price_extremes_since, lines 196-209: (min(lows), max(highs)) or (None, None).
Extremes(candles) ==
    IF candles = {} THEN [raises |-> FALSE, low |-> None, high |-> None]
    ELSE [raises |-> FALSE,
          low |-> Min({k.low : k \in candles}),
          high |-> Max({k.high : k \in candles})]

\* _price_extremes_since: [low, high], None for both without candles;
\* raises |-> TRUE for the ValueError of a failed request.
price_extremes_since(crypto, start_ts, end_ts, h, o) ==
    IF crypto \in o.candleFail
    THEN [raises |-> TRUE, low |-> None, high |-> None]
    ELSE Extremes(Returned(crypto, start_ts, end_ts, h, o))

\* Mutant of _was_trigger_hit: a failed spot request counts as a hit.
SpotHit_on_failure(current, price, trigger_on_or_above) ==
    IF current = Err THEN TRUE ELSE Crosses(current, price, trigger_on_or_above)

\* _was_trigger_hit, lines 83-86 and 90-96: the spot check.
SpotHit(current, price, trigger_on_or_above) ==
    IF current = Err THEN FALSE ELSE Crosses(current, price, trigger_on_or_above)

\* _was_trigger_hit, lines 88-100: the check of the extremes.
ExtremesHit(ex, price, trigger_on_or_above, spot) ==
    IF ex.raises THEN FALSE
    ELSE IF ex.low = None \/ ex.high = None THEN spot
    ELSE Crosses(IF trigger_on_or_above THEN ex.high ELSE ex.low,
                 price, trigger_on_or_above)

\* _was_trigger_hit: every ValueError is caught and answers FALSE.
was_trigger_hit(crypto, price, trigger_on_or_above, start_ts, stop_ts, h, o) ==
    IF start_ts >= stop_ts
    THEN SpotHit(get_price(crypto, h, stop_ts, o), price, trigger_on_or_above)
    ELSE ExtremesHit(price_extremes_since(crypto, start_ts, stop_ts, h, o),
             price, trigger_on_or_above,
             SpotHit(get_price(crypto, h, stop_ts, o), price, trigger_on_or_above))

\* _was_trigger_hit called with price = None, lines 83-100: whether one of the
\* comparisons `current >= price`, `high >= price`, `low <= price` is reached.
\* It raises TypeError, which `except ValueError` lets through; a ValueError
\* of the oracle before it answers False.
ComparesWithNone(crypto, start_ts, stop_ts, h, o) ==
    IF start_ts >= stop_ts THEN get_price(crypto, h, stop_ts, o) # Err
    ELSE IF crypto \in o.candleFail THEN FALSE
    ELSE IF Candles(crypto, start_ts, stop_ts, h, o) = {}
         THEN get_price(crypto, h, stop_ts, o) # Err
    ELSE TRUE

\* should_liquidate raises TypeError: liquidation_price() is None (lev <= 0)
\* and _was_trigger_hit compares a price with it.
should_liquidate_raises(position, h, t, o) ==
    /\ position.timestamp # None
    /\ liquidation_price(position) = NoPrice
    /\ ComparesWithNone(position.crypto, position.timestamp, t, h, o)

\* should_liquidate, when it returns
should_liquidate(position, h, t, o) ==
    IF position.timestamp = None THEN FALSE
    ELSE was_trigger_hit(position.crypto, liquidation_price(position),
                         position.side = SHORT, position.timestamp, t, h, o)

\* Mutant of should_fill_limit_order: a ValueError counts as a fill.
Caught_as_filled(ts) == IF ts = Err THEN 0 ELSE ts

\* should_fill_limit_order, lines 62-71: a ValueError answers None.
Caught(ts) == IF ts = Err THEN None ELSE ts

\* should_fill_limit_order: the fill timestamp or None.
should_fill_limit_order(order, h, t, o) ==
    IF order.timestamp = None THEN None
    ELSE Caught(first_trigger_hit_timestamp(order.crypto, Frac(order.entry),
                    order.side = SHORT, order.timestamp, t, h, o))

\* should_take_profit: LONG triggers on high >= take_profit, SHORT on
\* low <= take_profit, over the history since tp_timestamp.
should_take_profit(position, h, t, o) ==
    IF position.take_profit = None \/ position.tp_timestamp = None THEN FALSE
    ELSE was_trigger_hit(position.crypto, Frac(position.take_profit),
                         position.side = LONG, position.tp_timestamp, t, h, o)

\* should_stop_loss: LONG triggers on low <= stop_loss, SHORT on
\* high >= stop_loss, over the history since stop_timestamp.
should_stop_loss(position, h, t, o) ==
    IF position.stop_loss = None \/ position.stop_timestamp = None THEN FALSE
    ELSE was_trigger_hit(position.crypto, Frac(position.stop_loss),
                         position.side = SHORT, position.stop_timestamp, t, h, o)

----------------------------------------------------------------------------
(* app.py: the pure parts *)

\* Mutant of _calculate_pnl, lines 72-77: the side is not looked at.
RawPnl_long_only(position, current_price) ==
    (position.margin \div position.entry)
    * (current_price - position.entry)
    * position.lev

\* _calculate_pnl, lines 72-77, in 1/Scale dollar.  position.entry divides
\* position.margin because it divides Scale, so the quotient is exact.
RawPnl(position, current_price) ==
    (position.margin \div position.entry)
    * (IF position.side = LONG
       THEN current_price - position.entry
       ELSE position.entry - current_price)
    * position.lev

\* Mutant of _calculate_pnl: the loss is not capped at the margin.
calculate_pnl_uncapped(position, current_price) ==
    RawPnl(position, current_price)

\* _calculate_pnl
calculate_pnl(position, current_price) ==
    Max({RawPnl(position, current_price), -position.margin})

\* Mutant of _close_position: the escrowed margin is not returned.
close_position_keeps_margin(user_data, position, current_price) ==
    [ud |-> [user_data EXCEPT
               !.usd = @ + calculate_pnl(position, current_price),
               !.positions = SelectSeq(@, LAMBDA q :
                                 q.position_id # position.position_id)],
     pnl |-> calculate_pnl(position, current_price)]

\* _close_position on one account; Result [ud, pnl].
close_position(user_data, position, current_price) ==
    [ud |-> [user_data EXCEPT
               !.usd = @ + position.margin + calculate_pnl(position, current_price),
               !.positions = SelectSeq(@, LAMBDA q :
                                 q.position_id # position.position_id)],
     pnl |-> calculate_pnl(position, current_price)]

\* _update_positions, lines 103-106: trigger timestamps of a filled order.
FillTp(order, fill_ts) ==
    IF order.take_profit # None /\ order.tp_timestamp = None
    THEN [order EXCEPT !.tp_timestamp = fill_ts] ELSE order

\* Mutant of lines 105-106: the stop-loss of a filled order is not stamped.
FillStop_unstamped(order, fill_ts) == order

FillStop(order, fill_ts) ==
    IF order.stop_loss # None /\ order.stop_timestamp = None
    THEN [order EXCEPT !.stop_timestamp = fill_ts] ELSE order

\* _update_positions, lines 102-106: the order becomes an open position.
Fill(order, fill_ts) ==
    FillStop(FillTp([order EXCEPT !.timestamp = fill_ts], fill_ts), fill_ts)

\* Mutant of the orders loop: a filled order also stays pending.
OrderStep_keeps_pending(acc, order, uid, fill_ts) ==
    IF fill_ts = None
    THEN [acc EXCEPT !.remaining = Append(@, order)]
    ELSE [acc EXCEPT !.changed = TRUE,
                     !.remaining = Append(@, order),
                     !.positions = Append(@, Fill(order, fill_ts)),
                     !.fill = Append(@, [id |-> order.position_id, uid |-> uid])]

\* _update_positions, lines 96-115: what the loop does with one order whose
\* should_fill_limit_order answered fill_ts.
OrderStep(acc, order, uid, fill_ts) ==
    IF fill_ts = None
    THEN [acc EXCEPT !.remaining = Append(@, order)]
    ELSE [acc EXCEPT !.changed = TRUE,
                     !.positions = Append(@, Fill(order, fill_ts)),
                     !.fill = Append(@, [id |-> order.position_id, uid |-> uid])]

\* _update_positions, lines 95-116: the loop over one account's orders.
\* acc = [remaining, positions, fill, changed].
RECURSIVE OrdersLoop(_, _, _, _, _, _, _)
OrdersLoop(orders, i, acc, uid, h, t, o) ==
    IF i > Len(orders) THEN acc
    ELSE OrdersLoop(orders, i + 1,
             OrderStep(acc, orders[i], uid,
                       should_fill_limit_order(orders[i], h, t, o)),
             uid, h, t, o)

\* Mutant of line 152: the position is put before the other survivors.
Survive_in_front(acc, pos) ==
    [acc EXCEPT !.survivors = <<pos>> \o @]

\* _update_positions, lines 122-124 and 152: the position stays open.
Survive(acc, pos) ==
    [acc EXCEPT !.survivors = Append(@, pos)]

\* _update_positions, lines 128-141: closed by take-profit or stop-loss at
\* the current spot price.
CloseByTrigger(acc, pos, uid, cur, tp_hit) ==
    [acc EXCEPT !.changed = TRUE,
                !.usd = @ + pos.margin + calculate_pnl(pos, cur),
                !.pos = Append(@,
                    [kind |-> IF tp_hit THEN "take profit" ELSE "stop loss",
                     id |-> pos.position_id, uid |-> uid,
                     pnl |-> calculate_pnl(pos, cur)])]

\* Mutant of the liquidation: the margin is returned to the balance.
Liquidate_refunds(acc, pos, uid) ==
    [acc EXCEPT !.changed = TRUE,
                !.usd = @ + pos.margin,
                !.pos = Append(@,
                    [kind |-> "liquidated", id |-> pos.position_id, uid |-> uid,
                     pnl |-> -pos.margin])]

\* _update_positions, lines 143-150: liquidated, the margin is forfeited.
Liquidate(acc, pos, uid) ==
    [acc EXCEPT !.changed = TRUE,
                !.pos = Append(@,
                    [kind |-> "liquidated", id |-> pos.position_id, uid |-> uid,
                     pnl |-> -pos.margin])]

\* _update_positions, line 143: should_liquidate raised; the loop is left
\* with what it did so far.
Raise(acc) == [acc EXCEPT !.raised = TRUE]

\* Mutant of the positions loop: liquidation is checked before the triggers.
PositionStep_liquidation_first(acc, pos, uid, cur, tp_hit, stop_hit, raises, liquidate) ==
    IF cur = Err THEN Survive(acc, pos)
    ELSE IF raises THEN Raise(acc)
    ELSE IF liquidate THEN Liquidate(acc, pos, uid)
    ELSE IF tp_hit \/ stop_hit THEN CloseByTrigger(acc, pos, uid, cur, tp_hit)
    ELSE Survive(acc, pos)

\* _update_positions, lines 119-152: what the loop does with one position,
\* given the spot price cur and the answers of should_take_profit,
\* should_stop_loss and should_liquidate (raises: it raised TypeError).
PositionStep(acc, pos, uid, cur, tp_hit, stop_hit, raises, liquidate) ==
    IF cur = Err THEN Survive(acc, pos)
    ELSE IF tp_hit \/ stop_hit THEN CloseByTrigger(acc, pos, uid, cur, tp_hit)
    ELSE IF raises THEN Raise(acc)
    ELSE IF liquidate THEN Liquidate(acc, pos, uid)
    ELSE Survive(acc, pos)

\* _update_positions, lines 118-154: the loop over one account's positions.
\* acc = [survivors, usd, pos, changed, raised].
RECURSIVE PositionsLoop(_, _, _, _, _, _, _)
PositionsLoop(positions, i, acc, uid, h, t, o) ==
    IF i > Len(positions) \/ acc.raised THEN acc
    ELSE PositionsLoop(positions, i + 1,
             PositionStep(acc, positions[i], uid,
                          get_price(positions[i].crypto, h, t, o),
                          should_take_profit(positions[i], h, t, o),
                          should_stop_loss(positions[i], h, t, o),
                          should_liquidate_raises(positions[i], h, t, o),
                          should_liquidate(positions[i], h, t, o)),
             uid, h, t, o)

\* _update_positions, lines 116 and 154: the account after both loops; a is
\* what the orders loop returned, b what the positions loop returned.
\* If the positions loop raised, line 154 was not reached and udata.positions
\* is still the list the loop walked: the positions before with the filled
\* orders appended (line 107), those the loop closed included.
\* Result [ud, fill, pos, changed, raised].
Swept(a, b) ==
    [ud |-> [usd |-> b.usd,
             positions |-> IF b.raised THEN a.positions ELSE b.survivors,
             orders |-> a.remaining],
     fill |-> a.fill, pos |-> b.pos, changed |-> b.changed, raised |-> b.raised]

\* _update_positions, lines 118-154, after the orders loop returned a.
SweepPositions(ud, a, uid, h, t, o) ==
    Swept(a, PositionsLoop(a.positions, 1,
                 [survivors |-> <<>>, usd |-> ud.usd, pos |-> <<>>,
                  changed |-> a.changed, raised |-> FALSE], uid, h, t, o))

\* _update_positions, lines 94-154: one account.
SweepUser(ud, uid, h, t, o) ==
    SweepPositions(ud,
        OrdersLoop(ud.orders, 1,
            [remaining |-> <<>>, positions |-> ud.positions,
             fill |-> <<>>, changed |-> FALSE], uid, h, t, o),
        uid, h, t, o)

\* The messages and the account of one user join those of the users before.
\* acc = [users, fill, pos, changed, raised].
SweptUser(acc, u, r) ==
    [users |-> [acc.users EXCEPT ![u] = r.ud],
     fill |-> acc.fill \o r.fill,
     pos |-> acc.pos \o r.pos,
     changed |-> acc.changed \/ r.changed,
     raised |-> r.raised]

\* _update_positions, line 93: every account, in UserOrder, until an
\* exception leaves the function.
RECURSIVE SweepUsers(_, _, _, _, _)
SweepUsers(k, acc, h, t, o) ==
    IF k > Len(UserOrder) \/ acc.raised THEN acc
    ELSE SweepUsers(k + 1,
             IF UserOrder[k] \in DOMAIN acc.users
             THEN SweptUser(acc, UserOrder[k],
                      SweepUser(acc.users[UserOrder[k]], UserOrder[k], h, t, o))
             ELSE acc,
             h, t, o)

\* _update_positions.  Result [users, fill, pos, changed, raised]; if raised,
\* the caller gets the exception instead of the messages, and save_data was
\* not reached.
update_positions(us, h, t, o) ==
    SweepUsers(1, [users |-> us, fill |-> <<>>, pos |-> <<>>, changed |-> FALSE,
                   raised |-> FALSE],
               h, t, o)

----------------------------------------------------------------------------
(* app.py: handle_mention's commands as functions of the caller's account.
   Each result carries the reply the handler says (kind, pnl). *)

\* Mutant of the rejections: the id was allocated before the validation.
Rejected_consumes_id(k, ud, nid) == [kind |-> k, ud |-> ud, next_id |-> nid + 1]

\* A command that changes nothing says why.
Rejected(k, ud, nid) == [kind |-> k, ud |-> ud, next_id |-> nid]

\* Mutant of lines 255-258: every record goes to the open positions.
Opened_market_fills(ud, got, pos, limit) ==
    [kind |-> IF limit = None THEN "Opened" ELSE "Placed",
     ud |-> [usd |-> ud.usd - pos.margin,
             positions |-> Append(ud.positions, [pos EXCEPT !.position_id = got.pos_id]),
             orders |-> ud.orders],
     next_id |-> got.next_id]

\* Lines 245-261: the record is created with the next id and appended, the
\* margin is debited.
Opened(ud, got, pos, limit) ==
    [kind |-> IF limit = None THEN "Opened" ELSE "Placed",
     ud |-> [usd |-> ud.usd - pos.margin,
             positions |-> IF limit = None
                           THEN Append(ud.positions, [pos EXCEPT !.position_id = got.pos_id])
                           ELSE ud.positions,
             orders |-> IF limit = None
                        THEN ud.orders
                        ELSE Append(ud.orders, [pos EXCEPT !.position_id = got.pos_id])],
     next_id |-> got.next_id]

\* Mutant of the open command: the comparisons of lines 232 and 238 are
\* exchanged between the sides.
OpenResult_sides_swapped(ud, nid, side, margin, crypto, lev, limit, spot, t) ==
    IF ~(1 <= lev /\ lev <= 50) THEN Rejected("InvalidLeverage", ud, nid)
    ELSE IF margin <= 0 THEN Rejected("InvalidMargin", ud, nid)
    ELSE IF limit # None /\ limit <= 0 THEN Rejected("InvalidLimitPrice", ud, nid)
    ELSE IF ud.usd < margin THEN Rejected("InsufficientBalance", ud, nid)
    ELSE IF spot = Err THEN Rejected("PriceUnavailable", ud, nid)
    ELSE IF limit # None /\ side = SHORT /\ spot < limit
         THEN Rejected("InvalidLimitPrice", ud, nid)
    ELSE IF limit # None /\ side = LONG /\ spot > limit
         THEN Rejected("InvalidLimitPrice", ud, nid)
    ELSE Opened(ud, next_position_id(nid),
                Position(None, crypto, side, t,
                         IF limit # None THEN limit ELSE spot, margin, lev),
                limit)

\* Mutant of the open command: the limit price is not compared with the spot.
OpenResult_any_limit(ud, nid, side, margin, crypto, lev, limit, spot, t) ==
    IF ~(1 <= lev /\ lev <= 50) THEN Rejected("InvalidLeverage", ud, nid)
    ELSE IF margin <= 0 THEN Rejected("InvalidMargin", ud, nid)
    ELSE IF limit # None /\ limit <= 0 THEN Rejected("InvalidLimitPrice", ud, nid)
    ELSE IF ud.usd < margin THEN Rejected("InsufficientBalance", ud, nid)
    ELSE IF spot = Err THEN Rejected("PriceUnavailable", ud, nid)
    ELSE Opened(ud, next_position_id(nid),
                Position(None, crypto, side, t,
                         IF limit # None THEN limit ELSE spot, margin, lev),
                limit)

\* Lines 200-277: buy/sell.  spot is get_price(crypto) or Err.
\* Result [kind, ud, next_id].
OpenResult(ud, nid, side, margin, crypto, lev, limit, spot, t) ==
    IF ~(1 <= lev /\ lev <= 50) THEN Rejected("InvalidLeverage", ud, nid)
    ELSE IF margin <= 0 THEN Rejected("InvalidMargin", ud, nid)
    ELSE IF limit # None /\ limit <= 0 THEN Rejected("InvalidLimitPrice", ud, nid)
    ELSE IF ud.usd < margin THEN Rejected("InsufficientBalance", ud, nid)
    ELSE IF spot = Err THEN Rejected("PriceUnavailable", ud, nid)
    ELSE IF limit # None /\ side = LONG /\ spot < limit
         THEN Rejected("InvalidLimitPrice", ud, nid)
    ELSE IF limit # None /\ side = SHORT /\ spot > limit
         THEN Rejected("InvalidLimitPrice", ud, nid)
    ELSE Opened(ud, next_position_id(nid),
                Position(None, crypto, side, t,
                         IF limit # None THEN limit ELSE spot, margin, lev),
                limit)

\* Mutant of next(...): the first position is taken whatever the id.
FindPosition_first(positions, id) == IF positions = <<>> THEN 0 ELSE 1

\* next(pos for pos in positions if pos.position_id == id): its index, 0 if none.
FindPosition(positions, id) ==
    Min({i \in DOMAIN positions : positions[i].position_id = id} \cup {Len(positions) + 1})
    % (Len(positions) + 1)

\* Mutant of lines 300-312: both timestamps are stamped.
SetTrigger_stamps_both(ud, i, setting, amount, t) ==
    IF i = 0 THEN [kind |-> "PositionNotFound", ud |-> ud]
    ELSE IF setting = "tp"
    THEN [kind |-> "SetTp",
          ud |-> [ud EXCEPT !.positions[i].take_profit = amount,
                            !.positions[i].tp_timestamp = t,
                            !.positions[i].stop_timestamp = t]]
    ELSE [kind |-> "SetStop",
          ud |-> [ud EXCEPT !.positions[i].stop_loss = amount,
                            !.positions[i].tp_timestamp = t,
                            !.positions[i].stop_timestamp = t]]

\* Lines 300-312: the trigger and its timestamp are set on position i.
SetTrigger(ud, i, setting, amount, t) ==
    IF i = 0 THEN [kind |-> "PositionNotFound", ud |-> ud]
    ELSE IF setting = "tp"
    THEN [kind |-> "SetTp",
          ud |-> [ud EXCEPT !.positions[i].take_profit = amount,
                            !.positions[i].tp_timestamp = t]]
    ELSE [kind |-> "SetStop",
          ud |-> [ud EXCEPT !.positions[i].stop_loss = amount,
                            !.positions[i].stop_timestamp = t]]

\* Lines 285-316: position ID set tp/stop AMOUNT.  Result [kind, ud].
SetTriggerResult(ud, id, setting, amount, t) ==
    IF amount <= 0 THEN [kind |-> "InvalidAmount", ud |-> ud]
    ELSE SetTrigger(ud, FindPosition(ud.positions, id), setting, amount, t)

\* get_prices: the spot price of every symbol asked for, or a ValueError
\* (failed |-> TRUE) if one of them cannot be fetched.
get_prices(cryptos, h, t, o) ==
    [failed |-> \E c \in cryptos : get_price(c, h, t, o) = Err,
     prices |-> [c \in cryptos |-> get_price(c, h, t, o)]]

\* Line 336: total_pnl += _close_position(...).  acc = [ud, pnl].
CloseAllStep(acc, r) == [ud |-> r.ud, pnl |-> acc.pnl + r.pnl]

\* Mutant of lines 331-337: the loop walks the list _close_position shortens.
RECURSIVE CloseAllLoop_live(_, _, _, _)
CloseAllLoop_live(list, i, acc, prices) ==
    IF i > Len(acc.ud.positions) THEN acc
    ELSE CloseAllLoop_live(list, i + 1,
             CloseAllStep(acc, close_position(acc.ud, acc.ud.positions[i],
                                              prices[acc.ud.positions[i].crypto])),
             prices)

\* Lines 331-337: the loop of close all over the list the loop started with.
RECURSIVE CloseAllLoop(_, _, _, _)
CloseAllLoop(list, i, acc, prices) ==
    IF i > Len(list) THEN acc
    ELSE CloseAllLoop(list, i + 1,
             CloseAllStep(acc, close_position(acc.ud, list[i], prices[list[i].crypto])),
             prices)

\* A close command's reply.  r = [ud, pnl].
ClosedReply(r) == [kind |-> "Closed", ud |-> r.ud, pnl |-> r.pnl]

NotClosed(k, ud) == [kind |-> k, ud |-> ud, pnl |-> 0]

\* Lines 327-346: close all with the prices got.
CloseAllAt(ud, got) ==
    IF got.failed THEN NotClosed("PriceUnavailable", ud)
    ELSE ClosedReply(CloseAllLoop(ud.positions, 1, [ud |-> ud, pnl |-> 0], got.prices))

\* Lines 323-346: close all.  Result [kind, ud, pnl].
CloseAllResult(ud, h, t, o) ==
    IF ud.positions = <<>> THEN NotClosed("PositionNotFound", ud)
    ELSE CloseAllAt(ud,
             get_prices({ud.positions[i].crypto : i \in DOMAIN ud.positions}, h, t, o))

\* Lines 358-369: close the position found at the price got.
CloseIdAt(ud, position, cur) ==
    IF cur = Err THEN NotClosed("PriceUnavailable", ud)
    ELSE ClosedReply(close_position(ud, position, cur))

\* Lines 350-357: the position the id names, at index i.
CloseIdFound(ud, i, h, t, o) ==
    IF i = 0 THEN NotClosed("PositionNotFound", ud)
    ELSE CloseIdAt(ud, ud.positions[i], get_price(ud.positions[i].crypto, h, t, o))

\* Lines 350-369: close POSITION_ID.  Result [kind, ud, pnl].
CloseIdResult(ud, target_id, h, t, o) ==
    CloseIdFound(ud, FindPosition(ud.positions, target_id), h, t, o)

\* Sum of a sequence of numbers.
RECURSIVE SumSeq(_)
SumSeq(list) ==
    IF list = <<>> THEN 0 ELSE Head(list) + SumSeq(Tail(list))

\* Lines 395-404: the account and the reply after the matching positions
\* were closed.
CloseSymbolDone(ud, survivors, closed_margin, closed_pnl) ==
    IF closed_margin <= 0 THEN NotClosed("PositionNotFound", ud)
    ELSE [kind |-> "Closed",
          ud |-> [ud EXCEPT !.positions = survivors,
                            !.usd = @ + closed_margin + closed_pnl],
          pnl |-> closed_pnl]

\* Lines 380-394: the loop over the positions of the symbol.
CloseSymbolAt(ud, matching, crypto, cur) ==
    IF cur = Err THEN NotClosed("PriceUnavailable", ud)
    ELSE CloseSymbolDone(ud,
             SelectSeq(ud.positions, LAMBDA q : q.crypto # crypto),
             SumSeq([i \in DOMAIN matching |-> matching[i].margin]),
             SumSeq([i \in DOMAIN matching |-> calculate_pnl(matching[i], cur)]))

\* Lines 372-410: close CRYPTO/USDT.  Result [kind, ud, pnl].
CloseSymbolResult(ud, crypto, h, t, o) ==
    CloseSymbolAt(ud, SelectSeq(ud.positions, LAMBDA q : q.crypto = crypto),
                  crypto, get_price(crypto, h, t, o))

\* AppData.ensure_user
ensure_user(us, user_id) ==
    IF user_id \in DOMAIN us THEN us ELSE us @@ (user_id :> NewUser)

----------------------------------------------------------------------------
(* The state machine *)

NoFile == [exists |-> FALSE, users |-> EmptyUsers, next_id |-> 0]

\* A document written before position ids, timestamps and next_id existed;
\* its pending order carries a stop-loss.
LegacyDoc ==
    [exists |-> TRUE,
     users |-> ("u1" :>
                  [usd |-> 0,
                   positions |-> << [Position(None, "BTC", "BUY", None, 50,
                                              Dollars(100), 10)
                                      EXCEPT !.take_profit = 55] >>,
                   orders |-> <<>>])
               @@ ("u2" :>
                  [usd |-> Dollars(100),
                   positions |-> <<>>,
                   orders |-> << [Position(None, "ETH", "SELL", None, 100,
                                           Dollars(100), 10)
                                   EXCEPT !.stop_loss = 110] >>]),
     next_id |-> 0]

\* A document the present code saved: one funded account without records.
FundedDoc ==
    [exists |-> TRUE,
     users |-> ("u1" :> [usd |-> Dollars(100), positions |-> <<>>, orders |-> <<>>]),
     next_id |-> 0]

InitDocs == {NoFile, LegacyDoc, FundedDoc}

\* A document whose position was written without the key "lev" (and without
\* id and timestamps): from_dict reads lev = 0.
NoLevDoc ==
    [exists |-> TRUE,
     users |-> ("u1" :>
                  [usd |-> Dollars(100),
                   positions |-> << [Position(None, "BTC", "BUY", None, 50,
                                              Dollars(100), None)
                                      EXCEPT !.take_profit = 55] >>,
                   orders |-> <<>>]),
     next_id |-> 0]

\* Module import of app.py: init_store() on what DATA_FILE holds.
Init ==
    /\ now = 0
    /\ hist = [c \in Symbols |-> <<InitialPrice(c)>>]
    /\ \E doc \in InitDocs :
          \E s \in {init_store(doc, 0)} :
             users = s.users /\ next_id = s.next_id /\ disk = s.disk
    /\ hpc = "idle" /\ huser = "" /\ hmsgs = NoMsgs /\ hcmd = NoCmd
    /\ bpc = "sleep" /\ bmsgs = NoMsgs /\ bloc = NoLoc

\* A candle bucket passes and the price of every symbol moves.
Tick ==
    /\ now < MaxTime
    /\ now' = now + 1
    /\ \E f \in [Symbols -> UNION {PricesOf(c) : c \in Symbols}] :
          /\ \A c \in Symbols : f[c] \in PricesOf(c)
          /\ hist' = [c \in Symbols |-> Append(hist[c], f[c])]
    /\ UNCHANGED <<users, next_id, disk, hpc, huser, hmsgs, hcmd, bpc, bmsgs, bloc>>

\* handle_mention, lines 181-192: ensure_user, which saves a new account,
\* and the inline sweep, which saves if it changed anything.
\* If the sweep raises, the exception leaves handle_mention ("raised"):
\* nothing is said and no command is run; what the sweep did to the store
\* stays.
HandlerBegin(user, o) ==
    /\ hpc = "idle"
    /\ \E r \in {update_positions(ensure_user(users, user), hist, now, o)} :
          /\ users' = r.users
          /\ disk' = IF r.raised
                     THEN (IF user \notin DOMAIN users
                           THEN save_data(ensure_user(users, user), next_id)
                           ELSE disk)
                     ELSE IF r.changed \/ user \notin DOMAIN users
                     THEN save_data(r.users, next_id) ELSE disk
          /\ hmsgs' = IF r.raised THEN NoMsgs ELSE [fill |-> r.fill, pos |-> r.pos]
          /\ hpc' = IF r.raised THEN "raised" ELSE "cmd"
          /\ huser' = user
    /\ UNCHANGED <<next_id, now, hist, hcmd, bpc, bmsgs, bloc>>

\* The frame of every command step: the sweep's messages have been said and
\* the reply is said.  With rec the step stops at "reply", holding the parsed
\* command and the reply; without, handle_mention returns at once.
Replied(cmd, rec) ==
    /\ hpc' = IF rec THEN "reply" ELSE "idle"
    /\ hcmd' = IF rec THEN cmd ELSE NoCmd
    /\ huser' = IF rec THEN huser ELSE ""
    /\ hmsgs' = NoMsgs
    /\ UNCHANGED <<now, hist, bpc, bmsgs, bloc>>

\* buy/sell, lines 200-277.
CmdOpen(side, margin, crypto, lev, limit, o, rec) ==
    /\ hpc = "cmd"
    /\ \E spot \in {get_price(crypto, hist, now, o)} :
       \E r \in {OpenResult(users[huser], next_id, side, margin, crypto, lev,
                            limit, spot, now)} :
          /\ r.next_id <= MaxId
          /\ users' = [users EXCEPT ![huser] = r.ud]
          /\ next_id' = r.next_id
          /\ disk' = IF r.kind \in {"Opened", "Placed"}
                     THEN save_data(users', next_id') ELSE disk
          /\ Replied([NoCmd EXCEPT !.op = "open", !.kind = r.kind, !.side = side,
                        !.margin = margin, !.crypto = crypto, !.lev = lev,
                        !.limit = limit, !.spot = spot], rec)

\* The number of triggers set in a list of records.
TriggersIn(list) ==
    Cardinality({i \in DOMAIN list : list[i].take_profit # None})
    + Cardinality({i \in DOMAIN list : list[i].stop_loss # None})

\* The number of triggers set on the records of a store.
TriggersSet(us) ==
    SumSeq([k \in DOMAIN UserOrder |->
              IF UserOrder[k] \in DOMAIN us
              THEN TriggersIn(us[UserOrder[k]].positions)
                   + TriggersIn(us[UserOrder[k]].orders)
              ELSE 0])

\* position ID set tp/stop AMOUNT, lines 285-316, while the store holds at
\* most max triggers.
SetTriggerWithin(max, id, setting, amount, rec) ==
    /\ hpc = "cmd"
    /\ \E r \in {SetTriggerResult(users[huser], id, setting, amount, now)} :
          /\ users' = [users EXCEPT ![huser] = r.ud]
          /\ TriggersSet(users') <= max
          /\ disk' = IF r.kind \in {"SetTp", "SetStop"}
                     THEN save_data(users', next_id) ELSE disk
          /\ Replied([NoCmd EXCEPT !.op = "set", !.kind = r.kind, !.id = id,
                        !.setting = setting, !.amount = amount], rec)
    /\ UNCHANGED next_id

\* position ID set tp/stop AMOUNT, lines 285-316.
CmdSetTrigger(id, setting, amount, rec) ==
    SetTriggerWithin(MaxTriggers, id, setting, amount, rec)

\* The frame shared by the three close commands.
Closed(r, cmd, rec) ==
    /\ users' = [users EXCEPT ![huser] = r.ud]
    /\ disk' = IF r.kind = "Closed" THEN save_data(users', next_id) ELSE disk
    /\ Replied([cmd EXCEPT !.kind = r.kind, !.pnl = r.pnl], rec)
    /\ UNCHANGED next_id

\* close all, lines 323-346.
CmdCloseAll(o, rec) ==
    /\ hpc = "cmd"
    /\ \E r \in {CloseAllResult(users[huser], hist, now, o)} :
          Closed(r, [NoCmd EXCEPT !.op = "close all"], rec)

\* close POSITION_ID, lines 350-369.
CmdCloseId(id, o, rec) ==
    /\ hpc = "cmd"
    /\ \E r \in {CloseIdResult(users[huser], id, hist, now, o)} :
          Closed(r, [NoCmd EXCEPT !.op = "close id", !.id = id], rec)

\* close CRYPTO/USDT, lines 372-410.
CmdCloseSymbol(crypto, o, rec) ==
    /\ hpc = "cmd"
    /\ \E r \in {CloseSymbolResult(users[huser], crypto, hist, now, o)} :
          Closed(r, [NoCmd EXCEPT !.op = "close symbol", !.crypto = crypto], rec)

\* admin set @user $AMOUNT, lines 528-542.
CmdAdminSet(target, amt, rec) ==
    /\ hpc = "cmd"
    /\ IF huser # ADMIN_ID
       THEN /\ UNCHANGED <<users, disk>>
            /\ Replied([NoCmd EXCEPT !.op = "admin set", !.kind = "NotAdmin"], rec)
       ELSE /\ users' = [ensure_user(users, target) EXCEPT ![target].usd = amt]
            /\ disk' = save_data(users', next_id)
            /\ Replied([NoCmd EXCEPT !.op = "admin set", !.kind = "Set",
                          !.target = target, !.amount = amt], rec)
    /\ UNCHANGED next_id

\* admin add @user $AMOUNT, lines 544-558.
CmdAdminAdd(target, amt, rec) ==
    /\ hpc = "cmd"
    /\ IF huser # ADMIN_ID
       THEN /\ UNCHANGED <<users, disk>>
            /\ Replied([NoCmd EXCEPT !.op = "admin add", !.kind = "NotAdmin"], rec)
       ELSE /\ ensure_user(users, target)[target].usd + amt <= Dollars(MaxUsd)
            /\ users' = [ensure_user(users, target) EXCEPT ![target].usd = @ + amt]
            /\ disk' = save_data(users', next_id)
            /\ Replied([NoCmd EXCEPT !.op = "admin add", !.kind = "Added",
                          !.target = target, !.amount = amt], rec)
    /\ UNCHANGED next_id

\* price, check balance, help, check positions, check standings, brag and
\* unknown commands, lines 413-526 and 560: nothing is written.
CmdReadOnly(rec) ==
    /\ hpc = "cmd"
    /\ Replied([NoCmd EXCEPT !.op = "read only", !.kind = "Said"], rec)
    /\ UNCHANGED <<users, next_id, disk>>

\* handle_mention returns.
HandlerEnd ==
    /\ hpc = "reply"
    /\ hpc' = "idle"
    /\ huser' = ""
    /\ hcmd' = NoCmd
    /\ UNCHANGED <<users, next_id, disk, now, hist, hmsgs, bpc, bmsgs, bloc>>

\* handle_mention was left by the exception of its sweep; the listener that
\* called it goes on.
HandlerRaised ==
    /\ hpc = "raised"
    /\ hpc' = "idle"
    /\ huser' = ""
    /\ UNCHANGED <<users, next_id, disk, now, hist, hmsgs, hcmd, bpc, bmsgs, bloc>>

\* _background_position_updater, line 165: a sweep that no handler
\* interleaves.  Without messages the loops of lines 167-176 do nothing and
\* the thread is asleep again.  Nothing catches an exception of the sweep:
\* it ends the thread.
BgSweep(o) ==
    /\ bpc = "sleep"
    /\ \E r \in {update_positions(users, hist, now, o)} :
          /\ users' = r.users
          /\ disk' = IF r.changed /\ ~r.raised
                     THEN save_data(r.users, next_id) ELSE disk
          /\ bmsgs' = IF r.raised THEN NoMsgs ELSE [fill |-> r.fill, pos |-> r.pos]
          /\ bpc' = IF r.raised THEN "dead"
                    ELSE IF r.fill = <<>> /\ r.pos = <<>> THEN "sleep" ELSE "post"
    /\ UNCHANGED <<next_id, now, hist, hpc, huser, hmsgs, hcmd, bloc>>

\* _background_position_updater, lines 166-176: the messages are posted.
BgPost ==
    /\ bpc = "post"
    /\ bpc' = "sleep"
    /\ bmsgs' = NoMsgs
    /\ UNCHANGED <<users, next_id, disk, now, hist, hpc, huser, hmsgs, hcmd, bloc>>

\* _background_position_updater, line 165, as the interpreter may schedule
\* it: _update_positions begins; the users are those the store holds now.
BgStart ==
    /\ bpc = "sleep"
    /\ \E todo \in {SelectSeq(UserOrder, LAMBDA u : u \in DOMAIN users)} :
          /\ bloc' = [NoLoc EXCEPT !.todo = todo]
          /\ bpc' = IF todo = <<>> THEN "done" ELSE "orders"
    /\ UNCHANGED <<users, next_id, disk, now, hist, hpc, huser, hmsgs, hcmd, bmsgs>>

\* _update_positions, lines 94-116, for the next user: the orders loop and
\* udata.orders = remaining_orders.
BgOrders(o) ==
    /\ bpc = "orders"
    /\ \E u \in {Head(bloc.todo)} :
       \E a \in {OrdersLoop(users[u].orders, 1,
                     [remaining |-> <<>>, positions |-> users[u].positions,
                      fill |-> <<>>, changed |-> FALSE], u, hist, now, o)} :
          /\ users' = [users EXCEPT ![u].orders = a.remaining,
                                    ![u].positions = a.positions]
          /\ bloc' = [bloc EXCEPT !.uid = u, !.fill = @ \o a.fill,
                                  !.changed = @ \/ a.changed]
    /\ bpc' = "positions"
    /\ UNCHANGED <<next_id, disk, now, hist, hpc, huser, hmsgs, hcmd, bmsgs>>

\* _update_positions, lines 118-154, for the same user: the positions loop
\* over the list as it is now and udata.positions = survivors.
BgPositions(o) ==
    /\ bpc = "positions"
    /\ \E u \in {bloc.uid} :
       \E b \in {PositionsLoop(users[u].positions, 1,
                     [survivors |-> <<>>, usd |-> users[u].usd, pos |-> <<>>,
                      changed |-> bloc.changed, raised |-> FALSE],
                     u, hist, now, o)} :
          /\ users' = [users EXCEPT ![u].positions = IF b.raised THEN @
                                                     ELSE b.survivors,
                                    ![u].usd = b.usd]
          /\ bloc' = IF b.raised THEN NoLoc
                     ELSE [bloc EXCEPT !.todo = Tail(@), !.pos = @ \o b.pos,
                                       !.changed = b.changed]
          /\ bpc' = IF b.raised THEN "dead"
                    ELSE IF Tail(bloc.todo) = <<>> THEN "done" ELSE "orders"
    /\ UNCHANGED <<next_id, disk, now, hist, hpc, huser, hmsgs, hcmd, bmsgs>>

\* _update_positions, lines 156-159: save if anything changed, return the
\* messages.
BgDone ==
    /\ bpc = "done"
    /\ disk' = IF bloc.changed THEN save_data(users, next_id) ELSE disk
    /\ bmsgs' = [fill |-> bloc.fill, pos |-> bloc.pos]
    /\ bpc' = IF bloc.fill = <<>> /\ bloc.pos = <<>> THEN "sleep" ELSE "post"
    /\ bloc' = NoLoc
    /\ UNCHANGED <<users, next_id, now, hist, hpc, huser, hmsgs, hcmd>>

\* The commands an environment env sends: env.traders are the users who
\* mention the bot, env.symbols the symbols they name, env.rec as in Replied.
OpenCommand(env) ==
    \E side \in {LONG, SHORT}, margin \in MarginInputs(env.rec),
       crypto \in env.symbols, lev \in LeverageInputs(env.rec) :
       \E limit \in LimitInputs(crypto), o \in SpotAnswers(crypto) :
          CmdOpen(side, margin, crypto, lev, limit, o, env.rec)

SetCommand(env) ==
    \E id \in 0..MaxId, setting \in {"tp", "stop"}, amount \in TriggerInputs :
       CmdSetTrigger(id, setting, amount, env.rec)

CloseCommand(env) ==
    \/ \E c \in env.symbols : \E o \in SpotAnswers(c) : CmdCloseAll(o, env.rec)
    \/ \E id \in 0..MaxId, c \in env.symbols : \E o \in SpotAnswers(c) :
          CmdCloseId(id, o, env.rec)
    \/ \E crypto \in env.symbols : \E o \in SpotAnswers(crypto) :
          CmdCloseSymbol(crypto, o, env.rec)

AdminSetCommand(env) ==
    \E target \in env.traders, amt \in AdminAmounts :
       CmdAdminSet(target, amt, env.rec)

AdminAddCommand(env) ==
    \E target \in env.traders, amt \in AdminAmounts :
       CmdAdminAdd(target, amt, env.rec)

Command(env) ==
    \/ OpenCommand(env)
    \/ SetCommand(env)
    \/ CloseCommand(env)
    \/ AdminSetCommand(env)
    \/ AdminAddCommand(env)
    \/ CmdReadOnly(env.rec)

\* One trader on one symbol; the other accounts are those DATA_FILE held.
MainEnv == [traders |-> {"u1"}, symbols |-> {"BTC"}, rec |-> FALSE]

\* One thread at a time: the sweep and the handler run to completion.
Next ==
    \/ hpc = "idle" /\ bpc = "sleep" /\ Tick
    \/ \E user \in MainEnv.traders, o \in OracleAnswers :
          bpc = "sleep" /\ HandlerBegin(user, o)
    \/ Command(MainEnv)
    \/ \E o \in OracleAnswers : hpc = "idle" /\ BgSweep(o)
    \/ BgPost

Spec == Init /\ [][Next]_vars

\* The open command with every kind of argument, its reply kept until
\* handle_mention returns; the background thread is asleep.
RepliesEnv == [traders |-> {"u1"}, symbols |-> {"BTC"}, rec |-> TRUE]

NextReplies ==
    \/ hpc = "idle" /\ Tick
    \/ \E user \in RepliesEnv.traders, o \in OracleAnswers : HandlerBegin(user, o)
    \/ OpenCommand(RepliesEnv)
    \/ HandlerEnd

SpecReplies == Init /\ [][NextReplies]_vars

\* The two threads of __main__ as the interpreter schedules them: app.py
\* takes no lock, so handle_mention runs between the steps of the
\* background thread's _update_positions.
ThreadsEnv == [traders |-> {"u1"}, symbols |-> {"BTC"}, rec |-> FALSE]

NextThreads ==
    \/ hpc = "idle" /\ bpc = "sleep" /\ Tick
    \/ \E user \in ThreadsEnv.traders, o \in OracleAnswers : HandlerBegin(user, o)
    \/ OpenCommand(ThreadsEnv)
    \/ CloseCommand(ThreadsEnv)
    \/ AdminSetCommand(ThreadsEnv)
    \/ BgStart
    \/ \E o \in OracleAnswers : BgOrders(o)
    \/ \E o \in OracleAnswers : BgPositions(o)
    \/ BgDone
    \/ BgPost

SpecThreads == Init /\ [][NextThreads]_vars

\* The store loaded from a document with a position without leverage.
InitNoLev ==
    /\ now = 0
    /\ hist = [c \in Symbols |-> <<InitialPrice(c)>>]
    /\ \E s \in {init_store(NoLevDoc, 0)} :
          users = s.users /\ next_id = s.next_id /\ disk = s.disk
    /\ hpc = "idle" /\ huser = "" /\ hmsgs = NoMsgs /\ hcmd = NoCmd
    /\ bpc = "sleep" /\ bmsgs = NoMsgs /\ bloc = NoLoc

NoLevEnv == [traders |-> {"u1"}, symbols |-> {"BTC"}, rec |-> FALSE]

NextNoLev ==
    \/ hpc = "idle" /\ bpc \in {"sleep", "dead"} /\ Tick
    \/ \E user \in NoLevEnv.traders, o \in OracleAnswers :
          bpc \in {"sleep", "dead"} /\ HandlerBegin(user, o)
    \/ HandlerRaised
    \/ OpenCommand(NoLevEnv)
    \/ CloseCommand(NoLevEnv)
    \/ \E o \in OracleAnswers : hpc = "idle" /\ BgSweep(o)
    \/ BgPost

SpecNoLev == InitNoLev /\ [][NextNoLev]_vars

\* A document the present code saved: u1 holds two BTC positions and one ETH
\* position and has one order pending, u2 holds one position.
PortfolioDoc ==
    [exists |-> TRUE,
     users |-> ("u1" :>
                  [usd |-> 0,
                   positions |-> << Position(0, "BTC", LONG, 0, 50, Dollars(100), 10),
                                    Position(1, "ETH", SHORT, 0, 110, Dollars(100), 10),
                                    Position(2, "BTC", SHORT, 0, 50, Dollars(100), 50) >>,
                   orders |-> << Position(3, "ETH", LONG, 0, 90, Dollars(100), 10) >>])
               @@ ("u2" :>
                  [usd |-> Dollars(100),
                   positions |-> << Position(4, "BTC", LONG, 0, 50, Dollars(100), 10) >>,
                   orders |-> <<>>]),
     next_id |-> 5]

\* The ids the commands about PortfolioDoc name.
PortfolioIds == {0, 1, 2, 3, 4}

\* The store loaded from PortfolioDoc.
InitCloses ==
    /\ now = 0
    /\ hist = [c \in Symbols |-> <<InitialPrice(c)>>]
    /\ \E s \in {init_store(PortfolioDoc, 0)} :
          users = s.users /\ next_id = s.next_id /\ disk = s.disk
    /\ hpc = "idle" /\ huser = "" /\ hmsgs = NoMsgs /\ hcmd = NoCmd
    /\ bpc = "sleep" /\ bmsgs = NoMsgs /\ bloc = NoLoc

\* u1 sets triggers and closes; every reply is kept until handle_mention
\* returns; the background thread is asleep.
ClosesEnv == [traders |-> {"u1"}, symbols |-> Symbols, rec |-> TRUE]

NextCloses ==
    \/ hpc = "idle" /\ Tick
    \/ \E user \in ClosesEnv.traders, o \in OracleAnswers : HandlerBegin(user, o)
    \/ \E id \in PortfolioIds, setting \in {"tp", "stop"}, amount \in TriggerInputs :
          SetTriggerWithin(MaxPortfolioTriggers, id, setting, amount, ClosesEnv.rec)
    \/ \E c \in ClosesEnv.symbols : \E o \in SpotAnswers(c) :
          CmdCloseAll(o, ClosesEnv.rec)
    \/ \E id \in PortfolioIds, c \in ClosesEnv.symbols : \E o \in SpotAnswers(c) :
          CmdCloseId(id, o, ClosesEnv.rec)
    \/ \E crypto \in ClosesEnv.symbols : \E o \in SpotAnswers(crypto) :
          CmdCloseSymbol(crypto, o, ClosesEnv.rec)
    \/ HandlerEnd

SpecCloses == InitCloses /\ [][NextCloses]_vars

\* The arguments of _calculate_pnl: either side, entry prices below, at and
\* above the initial price, the least, a middle and the greatest leverage.
PnlEntries == {45, 50, 55}
PnlLeverages == {1, 10, 50}

\* A document the present code saved: u1 holds one BTC position.
PnlDoc(side, entry, lev) ==
    [exists |-> TRUE,
     users |-> ("u1" :>
                  [usd |-> 0,
                   positions |-> << Position(0, "BTC", side, 0, entry,
                                             Dollars(100), lev) >>,
                   orders |-> <<>>]),
     next_id |-> 1]

\* The store loaded from one of these documents.
InitPnl ==
    /\ now = 0
    /\ hist = [c \in Symbols |-> <<InitialPrice(c)>>]
    /\ \E side \in {LONG, SHORT}, entry \in PnlEntries, lev \in PnlLeverages :
          \E s \in {init_store(PnlDoc(side, entry, lev), 0)} :
             users = s.users /\ next_id = s.next_id /\ disk = s.disk
    /\ hpc = "idle" /\ huser = "" /\ hmsgs = NoMsgs /\ hcmd = NoCmd
    /\ bpc = "sleep" /\ bmsgs = NoMsgs /\ bloc = NoLoc

\* u1 closes the position by its id, the reply kept until handle_mention
\* returns; the background thread is asleep.
PnlEnv == [traders |-> {"u1"}, symbols |-> {"BTC"}, rec |-> TRUE]

NextPnl ==
    \/ hpc = "idle" /\ Tick
    \/ \E user \in PnlEnv.traders, o \in OracleAnswers : HandlerBegin(user, o)
    \/ \E c \in PnlEnv.symbols : \E o \in SpotAnswers(c) : CmdCloseId(0, o, PnlEnv.rec)
    \/ HandlerEnd

SpecPnl == InitPnl /\ [][NextPnl]_vars

\* DATA_FILE while save_data writes it: open(DATA_FILE, "w") has truncated
\* it, or the buffer of f was flushed before json.dump had written all.
EmptyFile == [exists |-> TRUE, text |-> "empty"]
PartialFile == [exists |-> TRUE, text |-> "partial"]

\* buy/sell, lines 200-260, up to the call of save_data at line 261.
OpenUnsaved(side, margin, crypto, lev, limit, o) ==
    /\ hpc = "cmd"
    /\ \E spot \in {get_price(crypto, hist, now, o)} :
       \E r \in {OpenResult(users[huser], next_id, side, margin, crypto, lev,
                            limit, spot, now)} :
          /\ r.next_id <= MaxId
          /\ users' = [users EXCEPT ![huser] = r.ud]
          /\ next_id' = r.next_id
          /\ hpc' = IF r.kind \in {"Opened", "Placed"} THEN "save" ELSE "idle"
          /\ huser' = IF r.kind \in {"Opened", "Placed"} THEN huser ELSE ""
    /\ hmsgs' = NoMsgs
    /\ UNCHANGED <<disk, now, hist, hcmd, bpc, bmsgs, bloc>>

\* save_data, line 177: open(DATA_FILE, "w") truncates the file.
SaveOpen ==
    /\ hpc = "save"
    /\ disk' = EmptyFile
    /\ hpc' = "dump"
    /\ UNCHANGED <<users, next_id, now, hist, huser, hmsgs, hcmd, bpc, bmsgs, bloc>>

\* save_data, line 178: json.dump writes chunk by chunk into the buffer of
\* f, which is flushed whenever it is full.
SaveFlush ==
    /\ hpc = "dump"
    /\ disk = EmptyFile
    /\ disk' = PartialFile
    /\ UNCHANGED <<users, next_id, now, hist, hpc, huser, hmsgs, hcmd, bpc, bmsgs, bloc>>

\* save_data, lines 177-178: the with block closes f, the document is
\* complete, and handle_mention returns.
SaveClose ==
    /\ hpc = "dump"
    /\ disk' = save_data(users, next_id)
    /\ hpc' = "idle"
    /\ huser' = ""
    /\ UNCHANGED <<users, next_id, now, hist, hmsgs, hcmd, bpc, bmsgs, bloc>>

\* The process stops: it is killed, or the machine goes down.
Stop ==
    /\ hpc # "stopped"
    /\ hpc' = "stopped"
    /\ UNCHANGED <<users, next_id, disk, now, hist, huser, hmsgs, hcmd, bpc, bmsgs, bloc>>

\* u1 opens positions and the process may stop at any point; the save of
\* the open command is followed statement by statement, the saves of
\* ensure_user and of the inline sweep are taken as one step each.
NextCrash ==
    \/ hpc = "idle" /\ Tick
    \/ \E user \in MainEnv.traders, o \in OracleAnswers : HandlerBegin(user, o)
    \/ \E side \in {LONG, SHORT}, margin \in MarginInputs(MainEnv.rec),
          crypto \in MainEnv.symbols, lev \in LeverageInputs(MainEnv.rec) :
          \E limit \in LimitInputs(crypto), o \in SpotAnswers(crypto) :
             OpenUnsaved(side, margin, crypto, lev, limit, o)
    \/ SaveOpen
    \/ SaveFlush
    \/ SaveClose
    \/ Stop

SpecCrash == Init /\ [][NextCrash]_vars

\* _update_positions, lines 118-152, for the same user, as the interpreter
\* may schedule it: the positions loop over the list as it is now has run,
\* udata.usd holds its credits, and survivors is still a local.
BgWalk(o) ==
    /\ bpc = "positions"
    /\ \E u \in {bloc.uid} :
       \E b \in {PositionsLoop(users[u].positions, 1,
                     [survivors |-> <<>>, usd |-> users[u].usd, pos |-> <<>>,
                      changed |-> bloc.changed, raised |-> FALSE],
                     u, hist, now, o)} :
          /\ users' = [users EXCEPT ![u].usd = b.usd]
          /\ bloc' = IF b.raised THEN NoLoc
                     ELSE [uid |-> u, todo |-> bloc.todo, fill |-> bloc.fill,
                           pos |-> bloc.pos \o b.pos, changed |-> b.changed,
                           survivors |-> b.survivors]
          /\ bpc' = IF b.raised THEN "dead" ELSE "assign"
    /\ UNCHANGED <<next_id, disk, now, hist, hpc, huser, hmsgs, hcmd, bmsgs>>

\* _update_positions, line 154: udata.positions = survivors.
BgAssign ==
    /\ bpc = "assign"
    /\ users' = [users EXCEPT ![bloc.uid].positions = bloc.survivors]
    /\ bloc' = [uid |-> bloc.uid, todo |-> Tail(bloc.todo), fill |-> bloc.fill,
                pos |-> bloc.pos, changed |-> bloc.changed]
    /\ bpc' = IF Tail(bloc.todo) = <<>> THEN "done" ELSE "orders"
    /\ UNCHANGED <<next_id, disk, now, hist, hpc, huser, hmsgs, hcmd, bmsgs>>

\* u1 opens positions at the market and closes positions by id while the
\* background thread sweeps; the oracle answers every request.  The caller
\* of close holds at most MaxUsd dollars.
NextRaces ==
    \/ hpc = "idle" /\ bpc = "sleep" /\ Tick
    \/ \E user \in MainEnv.traders : HandlerBegin(user, OracleUp)
    \/ \E side \in {LONG, SHORT}, margin \in MarginInputs(MainEnv.rec),
          crypto \in MainEnv.symbols, lev \in LeverageInputs(MainEnv.rec) :
          CmdOpen(side, margin, crypto, lev, None, OracleUp, MainEnv.rec)
    \/ /\ hpc = "cmd" /\ users[huser].usd <= Dollars(MaxUsd)
       /\ \E id \in 0..MaxId : CmdCloseId(id, OracleUp, MainEnv.rec)
    \/ BgStart
    \/ BgOrders(OracleUp)
    \/ BgWalk(OracleUp)
    \/ BgAssign
    \/ BgDone
    \/ BgPost

SpecRaces == Init /\ [][NextRaces]_vars

\* The range endpoint answers, and for one symbol the answer may begin with
\* the candle of the bucket before the start asked for.
EarlyAnswers ==
    {OracleUp} \cup {[OracleUp EXCEPT !.candleEarly = {c}] : c \in Symbols}

\* u1 opens positions, which the inline sweep of later mentions tests.
NextEarly ==
    \/ hpc = "idle" /\ Tick
    \/ \E user \in MainEnv.traders, o \in EarlyAnswers : HandlerBegin(user, o)
    \/ OpenCommand(MainEnv)
    \/ CmdReadOnly(MainEnv.rec)

SpecEarly == Init /\ [][NextEarly]_vars

----------------------------------------------------------------------------
(* _first_trigger_hit_timestamp request by request, in seconds.  bloc holds
   its arguments and locals, and what the endpoint has been asked and has
   answered so far. *)

MAX_CANDLES_PER_REQUEST == 300

choose_granularity(start_ts, end_ts) ==
    LET duration == Max({0, end_ts - start_ts})
    IN  IF duration <= 2 * 24 * 60 * 60 THEN 60
        ELSE IF duration <= 7 * 24 * 60 * 60 THEN 300
        ELSE IF duration <= 30 * 24 * 60 * 60 THEN 900
        ELSE IF duration <= 180 * 24 * 60 * 60 THEN 3600
        ELSE IF duration <= 365 * 24 * 60 * 60 THEN 21600
        ELSE 86400

\* stop_ts - start_ts of the calls: each granularity, windows of one
\* request, of one full request, of several.
WindowLengths ==
    {60, 18000, 18060, 172800, 172801, 604801, 2592001, 15552001, 31536001}

\* resp.json(): any list of at most MaxCandles candles, in any order.  Their
\* timestamps: before the window, its start, the end of the first request,
\* its end, and after it.  Their low and high: at or below the price of the
\* calls (50) only, or at or above it only.
Responses(loc) ==
    {r \in SUBSET {[ts |-> t, low |-> v.low, high |-> v.high] :
                     t \in {loc.start_ts - loc.granularity, loc.start_ts,
                            Min({loc.stop_ts,
                                 loc.start_ts
                                   + loc.granularity * MAX_CANDLES_PER_REQUEST}),
                            loc.stop_ts, loc.stop_ts + loc.granularity},
                     v \in {[low |-> 47, high |-> 49], [low |-> 51, high |-> 53]}} :
        Cardinality(r) <= MaxCandles}

\* The call begins, lines 110-121: start_ts < stop_ts.
InitChunks ==
    /\ now = 0
    /\ hist = [c \in Symbols |-> <<InitialPrice(c)>>]
    /\ \E s \in {init_store(NoFile, 0)} :
          users = s.users /\ next_id = s.next_id /\ disk = s.disk
    /\ hpc = "idle" /\ huser = "" /\ hmsgs = NoMsgs /\ hcmd = NoCmd
    /\ bmsgs = NoMsgs
    /\ bpc = "chunks"
    /\ \E start_ts \in {86400}, length \in WindowLengths, above \in BOOLEAN :
          bloc = [start_ts |-> start_ts, stop_ts |-> start_ts + length,
                  above |-> above,
                  granularity |-> choose_granularity(start_ts, start_ts + length),
                  saw_candles |-> FALSE, cursor |-> start_ts,
                  requests |-> <<>>, returned |-> {}, result |-> None]

\* Lines 141-157 with the test of line 150 left out.
ChunkHit_unfiltered(candles, price, trigger_on_or_above, start_ts, stop_ts) ==
    Earliest({k \in candles :
                Crosses(IF trigger_on_or_above THEN k.high ELSE k.low,
                        price, trigger_on_or_above)})

\* Lines 141-157: the candles of one response in order of timestamp; the
\* timestamp of the first one inside [start_ts, stop_ts] that hits.
ChunkHit(candles, price, trigger_on_or_above, start_ts, stop_ts) ==
    Earliest({k \in candles :
                /\ ~(k.ts < start_ts \/ k.ts > stop_ts)
                /\ Crosses(IF trigger_on_or_above THEN k.high ELSE k.low,
                           price, trigger_on_or_above)})

\* Lines 123-160: one pass of the loop.  The request either fails, and
\* ValueError is raised, or is answered with resp, whose first hit is hit.
ChunkPass(loc, fails, resp, hit) ==
    LET chunk_end ==
            Min({loc.stop_ts,
                 loc.cursor + loc.granularity * MAX_CANDLES_PER_REQUEST})
        asked == Append(loc.requests, [from |-> loc.cursor, to |-> chunk_end])
    IN  IF fails THEN [loc EXCEPT !.requests = asked, !.result = Err]
        ELSE [loc EXCEPT !.requests = asked,
                         !.returned = @ \cup resp,
                         !.saw_candles = @ \/ resp # {},
                         !.result = hit,
                         !.cursor = IF hit = None THEN chunk_end ELSE @]

ChunkRequest ==
    /\ bpc = "chunks"
    /\ bloc.cursor < bloc.stop_ts
    /\ \E resp \in Responses(bloc) :
       \E hit \in {ChunkHit(resp, Frac(50), bloc.above,
                             bloc.start_ts, bloc.stop_ts)} :
          /\ bloc' = ChunkPass(bloc, FALSE, resp, hit)
          /\ bpc' = IF hit = None THEN "chunks" ELSE "return"
    /\ UNCHANGED <<users, next_id, disk, now, hist, hpc, huser, hmsgs, hcmd, bmsgs>>

\* Lines 130-137: the request fails.
ChunkRaise ==
    /\ bpc = "chunks"
    /\ bloc.cursor < bloc.stop_ts
    /\ bloc' = ChunkPass(bloc, TRUE, {}, None)
    /\ bpc' = "return"
    /\ UNCHANGED <<users, next_id, disk, now, hist, hpc, huser, hmsgs, hcmd, bmsgs>>

\* Lines 161-168: the loop has ended; the spot check if no response held a
\* candle, None otherwise.
ChunkReturn ==
    /\ bpc = "chunks"
    /\ ~(bloc.cursor < bloc.stop_ts)
    /\ \E current \in {47, 53, Err} :
          bloc' = [bloc EXCEPT !.result =
                      IF ~bloc.saw_candles
                      THEN SpotTimestamp(current, Frac(50), bloc.above,
                                         bloc.stop_ts)
                      ELSE None]
    /\ bpc' = "return"
    /\ UNCHANGED <<users, next_id, disk, now, hist, hpc, huser, hmsgs, hcmd, bmsgs>>

NextChunks ==
    \/ ChunkRequest
    \/ ChunkRaise
    \/ ChunkReturn

\* The call is one thread's: a request is answered or fails, and the
\* thread goes on.
SpecChunksLive == InitChunks /\ [][NextChunks]_vars /\ WF_vars(NextChunks)

----------------------------------------------------------------------------
(* Vocabulary of the properties *)

\* The steps of handle_mention and of the background thread.
HandlerSweepStep == hpc = "idle" /\ hpc' = "cmd"
CommandStep == hpc = "cmd" /\ hpc' # "cmd"
BgSweepStep == hpc' = hpc /\ bpc = "sleep" /\ now' = now /\ bloc' = bloc
SweepStep == HandlerSweepStep \/ BgSweepStep

\* The position messages a sweep step returns.
StepMsgs == IF HandlerSweepStep THEN hmsgs'.pos ELSE bmsgs'.pos
StepFills == IF HandlerSweepStep THEN hmsgs'.fill ELSE bmsgs'.fill

\* An account that does not exist yet holds nothing.
Account(us, u) == IF u \in DOMAIN us THEN us[u] ELSE NewUser

Records(ud) == ud.positions \o ud.orders
RecordIds(ud) == {Records(ud)[i].position_id : i \in DOMAIN Records(ud)}
PositionIds(ud) == {ud.positions[i].position_id : i \in DOMAIN ud.positions}
OrderIds(ud) == {ud.orders[i].position_id : i \in DOMAIN ud.orders}
IdsOf(us) == UNION {RecordIds(us[u]) : u \in DOMAIN us}

\* The record of an account with a given id.
RecordOf(ud, id) ==
    Records(ud)[CHOOSE i \in DOMAIN Records(ud) : Records(ud)[i].position_id = id]

\* The spot price of the current bucket.
Spot(c) == hist[c][now + 1]

\* Section 4.2 of the specification: pct = (current - entry) / entry for LONG,
\* (entry - current) / entry for SHORT; pnl = pct * margin * leverage, never
\* less than -margin.
UnrealizedPnl(p, current) ==
    LET move == IF p.side = LONG THEN current - p.entry ELSE p.entry - current
    IN Max({-p.margin, move * p.lev * (p.margin \div p.entry)})

\* Balance plus the margins escrowed in open positions and pending orders.
Total(ud) ==
    ud.usd + SumSeq([i \in DOMAIN Records(ud) |-> Records(ud)[i].margin])

----------------------------------------------------------------------------
(* C1 *)

\* C1: for every account the balance usd is >= 0 in every state reachable by
\* opens, closes, set-trigger, sweeps and admin set/add.
C1_BalanceNonNegative == \A u \in DOMAIN users : users[u].usd >= 0

\* A sweep has closed a position by one of its triggers at the full loss,
\* crediting margin + pnl = 0 to an empty balance.
C1_Witness ==
    /\ hpc = "cmd"
    /\ \E i \in DOMAIN hmsgs.pos :
          /\ hmsgs.pos[i].kind \in {"take profit", "stop loss"}
          /\ hmsgs.pos[i].pnl = -Dollars(100)
          /\ users[hmsgs.pos[i].uid].usd = 0

----------------------------------------------------------------------------
(* C2 *)

\* What one message of a sweep does to the total of its account: the PNL at
\* the current spot for a trigger close, minus the margin for a liquidation.
ExpectedOfMsg(ud, m) ==
    LET p == RecordOf(ud, m.id)
    IN IF m.kind = "liquidated" THEN -p.margin
       ELSE UnrealizedPnl(p, Spot(p.crypto))

\* The PNL at the current spot of the positions a command closed.
ExpectedOfClose(before, after) ==
    SumSeq([i \in DOMAIN before.positions |->
              IF before.positions[i].position_id \in PositionIds(after) THEN 0
              ELSE UnrealizedPnl(before.positions[i],
                                 Spot(before.positions[i].crypto))])

\* An admin set or add: only the balance changes, to or by an admin amount.
AdminChange(before, after) ==
    /\ huser = ADMIN_ID
    /\ after.positions = before.positions /\ after.orders = before.orders
    /\ after.usd \in AdminAmounts \/ after.usd - before.usd \in AdminAmounts

C2_Step ==
    \A u \in DOMAIN users' :
       LET before == Account(users, u)
           after == users'[u]
           delta == Total(after) - Total(before)
       IN IF SweepStep
          THEN delta = SumSeq([i \in DOMAIN StepMsgs |->
                                 IF StepMsgs[i].uid = u
                                 THEN ExpectedOfMsg(before, StepMsgs[i]) ELSE 0])
          ELSE IF CommandStep
          THEN \/ delta = ExpectedOfClose(before, after) /\ after.usd >= before.usd
               \/ delta = 0 /\ PositionIds(before) \subseteq PositionIds(after)
               \/ AdminChange(before, after)
          ELSE delta = 0

\* C2: the total usd + margins of open positions + margins of pending orders
\* of every account is unchanged by an open and by a limit fill, changes by
\* exactly the PNL on a manual close and on a take-profit/stop-loss close, by
\* exactly -margin on a liquidation, and by no other lifecycle step.
C2_MarginEscrow == [][C2_Step]_vars

\* A sweep has closed a position by a trigger with a gain, and the balance
\* holds the margin and the gain.
C2_Witness ==
    /\ hpc = "cmd"
    /\ \E i \in DOMAIN hmsgs.pos :
          /\ hmsgs.pos[i].kind \in {"take profit", "stop loss"}
          /\ hmsgs.pos[i].pnl > 0
          /\ users[hmsgs.pos[i].uid].usd >= Dollars(100) + hmsgs.pos[i].pnl

----------------------------------------------------------------------------
(* C4 *)

\* No two records of the store share an id, and every id was handed out.
IdsUnique ==
    /\ \A u \in DOMAIN users :
          \A i, j \in DOMAIN Records(users[u]) :
             i # j => Records(users[u])[i].position_id # Records(users[u])[j].position_id
    /\ \A u, v \in DOMAIN users : u # v => RecordIds(users[u]) \cap RecordIds(users[v]) = {}
    /\ IdsOf(users) \subseteq 0..(next_id - 1)

\* What never changes in a record.
Core(r) == <<r.position_id, r.crypto, r.side, r.entry, r.margin, r.lev>>

C4_Step ==
    /\ next_id' \in {next_id, next_id + 1}
    /\ IdsOf(users') \subseteq IdsOf(users) \cup {next_id}
    /\ next_id' = next_id + 1 <=> next_id \in IdsOf(users')
    /\ \A u \in DOMAIN users :
          \A id \in RecordIds(users[u]) \cap IdsOf(users') :
             /\ id \in RecordIds(users'[u])
             /\ Core(RecordOf(users'[u], id)) = Core(RecordOf(users[u], id))

----------------------------------------------------------------------------
(* C3 *)

\* A batch of the background thread (_update_positions called from
\* _background_position_updater) or of handle_mention is under way.
SweeperBatch == bpc \in {"orders", "positions", "done"}
HandlerBatch == hpc \in {"cmd", "reply"}

\* C3: the sweep of the background thread and an invocation of
\* handle_mention, its inline sweep included, exclude each other: no command
\* changes an account between the two loops of the background sweep of that
\* account, that is after the sweep has read its pending orders and before it
\* reads and replaces its open positions.
C3_MutualExclusion ==
    [][~(/\ SweeperBatch /\ HandlerBatch
         /\ bpc = "positions" /\ bloc.uid = huser
         /\ bpc' = bpc
         /\ users'[huser] # users[huser])]_vars

----------------------------------------------------------------------------
(* C5 *)

\* A step of the open command; hcmd' holds its arguments, the spot price it
\* was answered and its reply.
OpenStep == hpc = "cmd" /\ hcmd'.op = "open"

Accepted == {"Opened", "Placed"}

C5_Step ==
    OpenStep =>
       /\ (\/ ~(1 <= hcmd'.lev /\ hcmd'.lev <= 50)
           \/ hcmd'.margin <= 0
           \/ hcmd'.margin > users[huser].usd
           \/ hcmd'.spot = Err
           \/ hcmd'.kind = "InvalidLimitPrice") => hcmd'.kind \notin Accepted
       /\ hcmd'.kind \notin Accepted => users' = users /\ next_id' = next_id

\* C5: an open that is rejected (leverage outside [1,50], margin <= 0,
\* margin > balance, no spot price, limit price rejected) changes neither the
\* balance, nor the open positions, nor the pending orders, nor next_id.
C5_RejectedOpen == [][C5_Step]_vars

\* An account that holds a record was refused another open for lack of
\* balance, and the counter is where the first open left it.
C5_Witness ==
    /\ hpc = "reply"
    /\ hcmd.op = "open" /\ hcmd.kind = "InsufficientBalance"
    /\ Records(users[huser]) # <<>>
    /\ next_id = 1

----------------------------------------------------------------------------
(* C6 *)

\* The validations of the open command other than those of the limit price.
OtherChecksPass ==
    /\ 1 <= hcmd'.lev /\ hcmd'.lev <= 50
    /\ hcmd'.margin > 0
    /\ hcmd'.margin <= users[huser].usd
    /\ hcmd'.spot # Err

DirectionallySane ==
    IF hcmd'.side = LONG THEN hcmd'.limit <= hcmd'.spot
    ELSE hcmd'.limit >= hcmd'.spot

\* The list after is the list before with one record more, of the given entry.
AppendedWith(before, after, entry) ==
    /\ Len(after) = Len(before) + 1
    /\ SubSeq(after, 1, Len(before)) = before
    /\ after[Len(after)].entry = entry
    /\ after[Len(after)].side = hcmd'.side
    /\ after[Len(after)].margin = hcmd'.margin
    /\ after[Len(after)].lev = hcmd'.lev

PlacedAsOrder ==
    /\ AppendedWith(users[huser].orders, users'[huser].orders, hcmd'.limit)
    /\ users'[huser].positions = users[huser].positions

OpenedAsPosition ==
    /\ AppendedWith(users[huser].positions, users'[huser].positions, hcmd'.spot)
    /\ users'[huser].orders = users[huser].orders

\* C6 as stated: with a limit price the open is accepted iff LONG limit <=
\* spot, SHORT limit >= spot, and fails with InvalidLimitPrice otherwise; an
\* accepted limit open joins the pending orders with entry = limit, an open
\* without limit the open positions with entry = spot.
C6_LimitSanity ==
    [][OpenStep /\ OtherChecksPass =>
         IF hcmd'.limit # None
         THEN /\ hcmd'.kind = "Placed" <=> DirectionallySane
              /\ hcmd'.kind # "Placed" => hcmd'.kind = "InvalidLimitPrice"
              /\ hcmd'.kind = "Placed" => PlacedAsOrder
         ELSE hcmd'.kind = "Opened" /\ OpenedAsPosition]_vars

\* C6 amended: the same for a limit price > 0; a limit price <= 0 fails with
\* InvalidLimitPrice whatever the spot.
C6_PositiveLimitSanity ==
    [][OpenStep /\ OtherChecksPass =>
         IF hcmd'.limit # None
         THEN /\ hcmd'.kind = "Placed" <=> hcmd'.limit > 0 /\ DirectionallySane
              /\ hcmd'.kind # "Placed" => hcmd'.kind = "InvalidLimitPrice"
              /\ hcmd'.kind = "Placed" => PlacedAsOrder
         ELSE hcmd'.kind = "Opened" /\ OpenedAsPosition]_vars

\* A LONG limit order below the spot has been placed and is pending at its
\* limit price.
C6_Witness ==
    /\ hpc = "reply"
    /\ hcmd.op = "open" /\ hcmd.kind = "Placed" /\ hcmd.side = LONG
    /\ hcmd.limit < hcmd.spot
    /\ \E i \in DOMAIN users[huser].orders :
          users[huser].orders[i].entry = hcmd.limit

----------------------------------------------------------------------------
(* C7 *)

\* A SHORT limit open at $50 that passes the other validations.
ShortLimit50 ==
    /\ OpenStep /\ OtherChecksPass
    /\ hcmd'.side = SHORT /\ hcmd'.limit = 50

\* C7 as stated: a SHORT limit order at $50 is accepted when the spot is $55
\* and rejected with InvalidLimitPrice when the spot is $45.
C7_ShortLimitScenario ==
    [][ShortLimit50 =>
         /\ hcmd'.spot = 55 => hcmd'.kind = "Placed"
         /\ hcmd'.spot = 45 => hcmd'.kind = "InvalidLimitPrice"]_vars

\* C7 amended: a SHORT limit order at $50 is accepted when the spot is $45
\* (spot below limit) and rejected with InvalidLimitPrice when the spot is $55.
C7_ShortLimitScenarioReversed ==
    [][ShortLimit50 =>
         /\ hcmd'.spot = 45 => hcmd'.kind = "Placed"
         /\ hcmd'.spot = 55 => hcmd'.kind = "InvalidLimitPrice"]_vars

\* A SHORT limit open at $50 with the spot at $55, by an account that could
\* pay the margin, was rejected.
C7_Witness ==
    /\ hpc = "reply"
    /\ hcmd.op = "open" /\ hcmd.side = SHORT /\ hcmd.limit = 50 /\ hcmd.spot = 55
    /\ 1 <= hcmd.lev /\ hcmd.lev <= 50
    /\ 0 < hcmd.margin /\ hcmd.margin <= users[huser].usd
    /\ hcmd.kind = "InvalidLimitPrice"

----------------------------------------------------------------------------
(* C8 *)

\* A command step that placed a limit order, and the order it placed.
PlacedStep ==
    CommandStep /\ Len(users'[huser].orders) = Len(users[huser].orders) + 1
NewOrder == users'[huser].orders[Len(users'[huser].orders)]

\* The fill condition of an order at a price.
FillCondition(order, price) ==
    IF order.side = LONG THEN price <= order.entry ELSE price >= order.entry

\* A sweep of the store us, at the present prices, fills the order id.
SweepFills(us, id, o) ==
    \E i \in DOMAIN update_positions(us, hist, now, o).fill :
       update_positions(us, hist, now, o).fill[i].id = id

----------------------------------------------------------------------------
(* C9 *)

\* The messages of the step about one record.
MsgsOf(id) == {i \in DOMAIN StepMsgs : StepMsgs[i].id = id}

C9_Step ==
    SweepStep =>
       \A u \in DOMAIN users' :
          LET before == Account(users, u)
              after == users'[u]
          IN /\ \A i \in DOMAIN StepMsgs :
                   StepMsgs[i].uid = u /\ StepMsgs[i].kind = "liquidated" =>
                      /\ StepMsgs[i].id \in RecordIds(before)
                      /\ StepMsgs[i].pnl = -RecordOf(before, StepMsgs[i].id).margin
                      /\ StepMsgs[i].id \notin RecordIds(after)
                      /\ MsgsOf(StepMsgs[i].id) = {i}
             /\ \A id \in RecordIds(before) \ RecordIds(after) :
                   Cardinality(MsgsOf(id)) = 1
             /\ after.usd - before.usd =
                   SumSeq([i \in DOMAIN StepMsgs |->
                             IF StepMsgs[i].uid = u /\ StepMsgs[i].kind # "liquidated"
                             THEN RecordOf(before, StepMsgs[i].id).margin
                                  + StepMsgs[i].pnl
                             ELSE 0])

\* The example: LONG, margin 100, 10x, entry 100, a low of 85 since opening.
ExamplePosition == Position(0, "ETH", LONG, 0, 100, Dollars(100), 10)
ExampleHistory == [c \in Symbols |-> <<100, 85>>]

C9_Example ==
    /\ liquidation_price(ExamplePosition) = [num |-> 900, den |-> 10]
    /\ should_liquidate(ExamplePosition, ExampleHistory, 1, OracleUp)
    /\ update_positions(
          "u1" :> [usd |-> 0, positions |-> <<ExamplePosition>>, orders |-> <<>>],
          ExampleHistory, 1, OracleUp)
       = [users |-> "u1" :> [usd |-> 0, positions |-> <<>>, orders |-> <<>>],
          fill |-> <<>>,
          pos |-> <<[kind |-> "liquidated", id |-> 0, uid |-> "u1",
                     pnl |-> -Dollars(100)]>>,
          changed |-> TRUE, raised |-> FALSE]

\* C9: a position the sweep liquidates is removed from the account, its loss
\* is exactly -margin, the balance is not changed by it (it changes only by
\* what the trigger closes of the same pass credit) and exactly one
\* liquidation event is emitted for it; the LONG example with a low of 85 is
\* liquidated with a loss of exactly -100.
C9_Liquidation == [](C9_Example) /\ [][C9_Step]_vars

\* The inline sweep has liquidated a position: the record is gone and the
\* balance is what it was.
C9_Witness ==
    /\ hpc = "cmd"
    /\ \E i \in DOMAIN hmsgs.pos :
          /\ hmsgs.pos[i].kind = "liquidated"
          /\ hmsgs.pos[i].pnl = -Dollars(100)
          /\ hmsgs.pos[i].id \notin RecordIds(users[hmsgs.pos[i].uid])

----------------------------------------------------------------------------
(* C10 *)

\* What a pass of the sweep over the present store does under the answers o.
C10_Pass(o) ==
    LET r == update_positions(users, hist, now, o)
    IN /\ \A j, k \in DOMAIN r.pos : r.pos[j].id = r.pos[k].id => j = k
       /\ \A u \in DOMAIN users :
             /\ \A i \in DOMAIN users[u].positions :
                   LET p == users[u].positions[i]
                       cur == get_price(p.crypto, hist, now, o)
                       tp == should_take_profit(p, hist, now, o)
                       sl == should_stop_loss(p, hist, now, o)
                   IN cur # Err /\ (tp \/ sl) =>
                         /\ \E j \in DOMAIN r.pos :
                               r.pos[j] = [kind |-> IF tp THEN "take profit"
                                                    ELSE "stop loss",
                                           id |-> p.position_id, uid |-> u,
                                           pnl |-> calculate_pnl(p, cur)]
                         /\ p.position_id \notin RecordIds(r.users[u])
             /\ r.users[u].usd - users[u].usd =
                   SumSeq([j \in DOMAIN r.pos |->
                             IF r.pos[j].uid = u /\ r.pos[j].kind # "liquidated"
                             THEN RecordOf(users[u], r.pos[j].id).margin + r.pos[j].pnl
                             ELSE 0])

\* Every sweep step is such a pass.
C10_Step ==
    SweepStep =>
       \E o \in OracleAnswers :
          LET r == update_positions(
                      IF HandlerSweepStep THEN ensure_user(users, huser') ELSE users,
                      hist, now, o)
          IN users' = r.users /\ StepMsgs = r.pos /\ StepFills = r.fill

\* C10: in a pass of the sweep a position whose take-profit or stop-loss
\* fires is closed with margin + pnl credited, pnl being _calculate_pnl at
\* the current spot, and is not liquidated in that pass, also if its
\* liquidation threshold was crossed; no position has two events in a pass.
C10_TriggersBeforeLiquidation ==
    [](\A o \in OracleAnswers : C10_Pass(o)) /\ [][C10_Step]_vars

\* The inline sweep has closed a position by a trigger at a price beyond its
\* liquidation price: the event carries the full loss and is the only one.
C10_Witness ==
    /\ hpc = "cmd"
    /\ \E i \in DOMAIN hmsgs.pos :
          /\ hmsgs.pos[i].kind = "stop loss"
          /\ hmsgs.pos[i].pnl = -Dollars(100)
          /\ \A j \in DOMAIN hmsgs.pos : hmsgs.pos[j].id = hmsgs.pos[i].id => j = i
          /\ hmsgs.pos[i].id \notin RecordIds(users[hmsgs.pos[i].uid])

----------------------------------------------------------------------------
(* C11 *)

\* The ids the messages of a list name, and the messages about one id.
IdsIn(msgs) == {msgs[i].id : i \in DOMAIN msgs}
About(msgs, id) == {msgs[i] : i \in {j \in DOMAIN msgs : msgs[j].id = id}}

\* The records of a list, as a set.
Range(list) == {list[i] : i \in DOMAIN list}

\* The price lookup of an order (the scan of _first_trigger_hit_timestamp)
\* or of a position (get_price at line 121) fails under the answers o.
OrderLookupFails(order, o) ==
    first_trigger_hit_timestamp(order.crypto, Frac(order.entry), order.side = SHORT,
                                order.timestamp, now, hist, o) = Err
PositionLookupFails(pos, o) == get_price(pos.crypto, hist, now, o) = Err

\* The symbols for which the oracle answers everything under o.
Served(o) == Symbols \ (o.spotFail \cup o.candleFail \cup o.candleEmpty)

\* What became of the record id of account u in the result r of a pass.
Fate(r, u, id) ==
    [fills |-> About(r.fill, id),
     events |-> About(r.pos, id),
     pending |-> {q \in Range(r.users[u].orders) : q.position_id = id},
     open |-> {q \in Range(r.users[u].positions) : q.position_id = id}]

C11_Pass(o) ==
    \A u \in DOMAIN users :
       /\ \A i \in DOMAIN users[u].orders :
             OrderLookupFails(users[u].orders[i], o) =>
                /\ users[u].orders[i] \in Range(update_positions(users, hist, now, o).users[u].orders)
                /\ users[u].orders[i].position_id
                      \notin IdsIn(update_positions(users, hist, now, o).fill)
       /\ \A i \in DOMAIN users[u].positions :
             PositionLookupFails(users[u].positions[i], o) =>
                /\ users[u].positions[i]
                      \in Range(update_positions(users, hist, now, o).users[u].positions)
                /\ users[u].positions[i].position_id
                      \notin IdsIn(update_positions(users, hist, now, o).pos)
       /\ \A i \in DOMAIN Records(users[u]) :
             Records(users[u])[i].crypto \in Served(o) =>
                Fate(update_positions(users, hist, now, o), u,
                     Records(users[u])[i].position_id)
                = Fate(update_positions(users, hist, now, OracleUp), u,
                       Records(users[u])[i].position_id)

\* C11: in a sweep of any reachable store, under any answers of the oracle,
\* an order or a position whose price lookup fails stays where it is with all
\* fields unchanged and without event, and every record of a symbol the
\* oracle serves is evaluated as if nothing had failed.
C11_OracleFailureIsolated == \A o \in OracleAnswers : C11_Pass(o)

\* The inline sweep has filled an order while a position whose take-profit
\* was crossed is still open: its price lookup failed in that sweep.
C11_Witness ==
    /\ hpc = "cmd"
    /\ hmsgs.fill # <<>>
    /\ \E u \in DOMAIN users : \E i \in DOMAIN users[u].positions :
          /\ users[u].positions[i].position_id \notin IdsIn(hmsgs.fill)
          /\ should_take_profit(users[u].positions[i], hist, now, OracleUp)

----------------------------------------------------------------------------
(* C12 *)

\* A lookup should_liquidate makes for the position fails under o: the spot
\* request if the position was opened now, else the range request, or the
\* spot fallback after a range without candles.
LiquidationDataMissing(pos, o) ==
    IF pos.timestamp >= now THEN get_price(pos.crypto, hist, now, o) = Err
    ELSE \/ pos.crypto \in o.candleFail
         \/ /\ Candles(pos.crypto, pos.timestamp, now, hist, o) = {}
            /\ get_price(pos.crypto, hist, now, o) = Err

\* The positions the positions loop of a pass walks in account u: the open
\* ones and the orders the pass has just filled.
Walked(u, o) ==
    Range(users[u].positions)
    \cup {Fill(q, should_fill_limit_order(q, hist, now, o)) :
            q \in {r \in Range(users[u].orders) :
                      should_fill_limit_order(r, hist, now, o) # None}}

Liquidations(msgs) ==
    {msgs[i].id : i \in {j \in DOMAIN msgs : msgs[j].kind = "liquidated"}}

C12_Pass(o) ==
    \A u \in DOMAIN users : \A pos \in Walked(u, o) :
       /\ LiquidationDataMissing(pos, o) => ~should_liquidate(pos, hist, now, o)
       /\ LiquidationDataMissing(pos, o) \/ PositionLookupFails(pos, o) =>
             /\ pos.position_id
                   \notin Liquidations(update_positions(users, hist, now, o).pos)
             /\ pos \in Range(update_positions(users, hist, now, o).users[u].positions)
                \/ pos.position_id \in IdsIn(update_positions(users, hist, now, o).pos)

\* C12: for every position of a reachable store and every answer of the
\* oracle under which the range lookup or the spot fallback of
\* should_liquidate fails, should_liquidate is false, and a sweep under these
\* answers does not liquidate the position.
C12_LiquidationFailsSafe == \A o \in OracleAnswers : C12_Pass(o)

\* The inline sweep has left open a position whose liquidation price was
\* crossed and that has no trigger: the oracle failed for it in that sweep.
C12_Witness ==
    /\ hpc = "cmd"
    /\ \E i \in DOMAIN users[huser].positions :
          /\ should_liquidate(users[huser].positions[i], hist, now, OracleUp)
          /\ users[huser].positions[i].take_profit = None
          /\ users[huser].positions[i].stop_loss = None
          /\ users[huser].positions[i].timestamp < now

----------------------------------------------------------------------------
(* C13 *)

\* The positions without leverage of the store.
NoLeverage ==
    UNION {{q \in Range(users[u].positions) : q.lev <= 0} : u \in DOMAIN users}

\* C13: a position with lev <= 0 never liquidates: should_liquidate answers
\* false for it without raising, whatever the oracle answers, and no sweep
\* over a store that holds such a position is left by an exception, neither
\* the inline sweep of handle_mention nor the sweep of the background thread.
C13_NoLeverageNeverLiquidates ==
    /\ \A o \in OracleAnswers : \A q \in NoLeverage :
          /\ ~should_liquidate_raises(q, hist, now, o)
          /\ ~should_liquidate(q, hist, now, o)
    /\ hpc # "raised"
    /\ bpc # "dead"

----------------------------------------------------------------------------
(* C14 *)

\* What the orders loop of a pass over account u returns under o.
OrdersPass(u, o) ==
    OrdersLoop(users[u].orders, 1,
               [remaining |-> <<>>, positions |-> users[u].positions,
                fill |-> <<>>, changed |-> FALSE], u, hist, now, o)

\* The order q as an open position filled at ts: openedAt is ts, the unset
\* timestamp of an attached trigger is ts, nothing else differs.
FilledAt(q, ts) ==
    [position_id |-> q.position_id, crypto |-> q.crypto, side |-> q.side,
     entry |-> q.entry, margin |-> q.margin, lev |-> q.lev,
     take_profit |-> q.take_profit, stop_loss |-> q.stop_loss,
     timestamp |-> ts,
     tp_timestamp |-> IF q.take_profit # None /\ q.tp_timestamp = None
                      THEN ts ELSE q.tp_timestamp,
     stop_timestamp |-> IF q.stop_loss # None /\ q.stop_timestamp = None
                        THEN ts ELSE q.stop_timestamp]

\* The orders of account u that fill under o, in their order.
Filling(u, o) ==
    SelectSeq(users[u].orders,
              LAMBDA q : should_fill_limit_order(q, hist, now, o) # None)

\* The credits of the trigger closes among the events msgs to account u.
Credits(msgs, u, records) ==
    SumSeq([i \in DOMAIN msgs |->
              IF msgs[i].uid = u /\ msgs[i].kind # "liquidated"
              THEN records[CHOOSE k \in DOMAIN records :
                              records[k].position_id = msgs[i].id].margin
                   + msgs[i].pnl
              ELSE 0])

C14_Pass(o) ==
    \A u \in DOMAIN users :
       /\ OrdersPass(u, o).remaining
             = SelectSeq(users[u].orders,
                         LAMBDA q : should_fill_limit_order(q, hist, now, o) = None)
       /\ OrdersPass(u, o).positions
             = users[u].positions
               \o [i \in DOMAIN Filling(u, o) |->
                     FilledAt(Filling(u, o)[i],
                              should_fill_limit_order(Filling(u, o)[i], hist, now, o))]
       /\ \A i \in DOMAIN Filling(u, o) :
             /\ should_fill_limit_order(Filling(u, o)[i], hist, now, o)
                   \in Filling(u, o)[i].timestamp .. now
             /\ Cardinality({j \in DOMAIN OrdersPass(u, o).fill :
                   OrdersPass(u, o).fill[j].id = Filling(u, o)[i].position_id}) = 1
             /\ Filling(u, o)[i].position_id
                   \notin {users[u].positions[k].position_id :
                             k \in DOMAIN users[u].positions}
       /\ update_positions(users, hist, now, o).users[u].orders
             = OrdersPass(u, o).remaining
       /\ \A q \in Range(OrdersPass(u, o).positions) :
             \/ q \in Range(update_positions(users, hist, now, o).users[u].positions)
             \/ q.position_id \in IdsIn(update_positions(users, hist, now, o).pos)
       /\ update_positions(users, hist, now, o).users[u].usd - users[u].usd
             = Credits(update_positions(users, hist, now, o).pos, u,
                       OrdersPass(u, o).positions)

\* C14: in a pass of the sweep a pending order that fills leaves the pending
\* orders and joins the open positions (the orders loop leaves it in exactly
\* one of the two lists), with openedAt = the fill timestamp, which lies in
\* [order creation time, now], with the unset timestamp of an attached
\* take-profit or stop-loss set to the fill timestamp, and with id, symbol,
\* side, entry, margin and leverage unchanged; the fill does not change the
\* balance, which moves in the pass only by the credits of trigger closes.
C14_Fill == \A o \in OracleAnswers : C14_Pass(o)

\* The inline sweep has filled an order that carried a stop-loss: it is an
\* open position whose stop-loss observes from the fill time, and it is no
\* longer pending.
C14_Witness ==
    /\ hpc = "cmd"
    /\ \E i \in DOMAIN hmsgs.fill :
          /\ hmsgs.fill[i].id \in PositionIds(users[hmsgs.fill[i].uid])
          /\ hmsgs.fill[i].id \notin OrderIds(users[hmsgs.fill[i].uid])
          /\ RecordOf(users[hmsgs.fill[i].uid], hmsgs.fill[i].id).stop_loss # None
          /\ RecordOf(users[hmsgs.fill[i].uid], hmsgs.fill[i].id).stop_timestamp
                = RecordOf(users[hmsgs.fill[i].uid], hmsgs.fill[i].id).timestamp

----------------------------------------------------------------------------
(* C15 *)

\* A second run of the sweep on the store the first run r left, at the same
\* time and under the same answers of the oracle, does nothing.
SecondRunIdle(r, o) ==
    /\ update_positions(r.users, hist, now, o).fill = <<>>
    /\ update_positions(r.users, hist, now, o).pos = <<>>
    /\ update_positions(r.users, hist, now, o).users = r.users
    /\ ~update_positions(r.users, hist, now, o).changed

\* C15: the sweep is idempotent: run twice in a row on any reachable store
\* with no price change (the same answers of the oracle) and no time elapsed,
\* the second run emits no fill event and no close or liquidation event and
\* leaves every balance, position and order unchanged.
C15_SweepIdempotent ==
    \A o \in OracleAnswers : SecondRunIdle(update_positions(users, hist, now, o), o)

\* The inline sweep has just filled an order and closed a position, records
\* are left, and a run now would emit nothing and change nothing.
C15_Witness ==
    /\ hpc = "cmd"
    /\ hmsgs.fill # <<>> /\ hmsgs.pos # <<>>
    /\ \E u \in DOMAIN users : Records(users[u]) # <<>>
    /\ update_positions(users, hist, now, OracleUp).fill = <<>>
    /\ update_positions(users, hist, now, OracleUp).pos = <<>>
    /\ update_positions(users, hist, now, OracleUp).users = users

----------------------------------------------------------------------------
(* C16 *)

\* A take-profit or stop-loss, or a trigger or the liquidation, fires for a
\* position in a pass under the answers o.
TriggerFires(pos, o) ==
    /\ get_price(pos.crypto, hist, now, o) # Err
    /\ \/ should_take_profit(pos, hist, now, o)
       \/ should_stop_loss(pos, hist, now, o)
Fires(pos, o) ==
    \/ TriggerFires(pos, o)
    \/ /\ get_price(pos.crypto, hist, now, o) # Err
       /\ should_liquidate(pos, hist, now, o)

C16_Pass(o) ==
    \A u \in DOMAIN users :
       /\ update_positions(users, hist, now, o).users[u].orders
             = SelectSeq(users[u].orders,
                         LAMBDA q : should_fill_limit_order(q, hist, now, o) = None)
       /\ SelectSeq(update_positions(users, hist, now, o).users[u].positions,
                    LAMBDA q : q.position_id \in PositionIds(users[u]))
             = SelectSeq(users[u].positions, LAMBDA q : ~Fires(q, o))
       /\ (\A q \in Walked(u, o) : ~TriggerFires(q, o)) =>
             update_positions(users, hist, now, o).users[u].usd = users[u].usd

\* C16: in a pass of the sweep over any reachable store, the pending orders
\* that do not fill are the pending orders after the pass, and the open
\* positions for which neither take-profit, stop-loss nor liquidation fires
\* are still open after it, all with every field equal and in the same
\* relative order; the balance of an account in which no take-profit and no
\* stop-loss fires is unchanged.
C16_UntouchedSurvive == \A o \in OracleAnswers : C16_Pass(o)

\* The inline sweep has left two positions of the caller open, both opened
\* before now, in the order in which they were opened.
C16_Witness ==
    /\ hpc = "cmd"
    /\ Len(users[huser].positions) = 2
    /\ users[huser].positions[1].position_id < users[huser].positions[2].position_id
    /\ users[huser].positions[1].timestamp < now
    /\ users[huser].positions[2].timestamp < now
    /\ hmsgs = NoMsgs

----------------------------------------------------------------------------
(* C17 *)

\* The command step of handle_mention that has run command op with reply kind.
Ran(op, kind) == hpc = "cmd" /\ hpc' = "reply" /\ hcmd'.op = op /\ hcmd'.kind = kind

\* margin + unrealizedPnl at the current spot, summed over a list of positions.
Settlement(list) ==
    SumSeq([i \in DOMAIN list |->
              list[i].margin + UnrealizedPnl(list[i], Spot(list[i].crypto))])

\* The accounts of the users other than the caller are unchanged.
OthersUnchanged ==
    /\ DOMAIN users' = DOMAIN users
    /\ \A u \in DOMAIN users \ {huser} : users'[u] = users[u]

C17_Step ==
    /\ Ran("close all", "Closed") =>
          /\ users'[huser].positions = <<>>
          /\ users'[huser].usd = users[huser].usd + Settlement(users[huser].positions)
          /\ users'[huser].orders = users[huser].orders
          /\ OthersUnchanged
    /\ Ran("close symbol", "Closed") =>
          /\ users'[huser].positions
                = SelectSeq(users[huser].positions, LAMBDA q : q.crypto # hcmd'.crypto)
          /\ users'[huser].usd
                = users[huser].usd
                  + Settlement(SelectSeq(users[huser].positions,
                                         LAMBDA q : q.crypto = hcmd'.crypto))
          /\ users'[huser].orders = users[huser].orders
          /\ OthersUnchanged

\* C17: after a successful close all the caller has no open position and the
\* balance has grown by the sum over the closed positions of margin +
\* unrealizedPnl at the spot of each position's symbol; after a successful
\* close by symbol exactly the positions of that symbol are gone, the others
\* are unchanged, and the balance has grown by the sum of margin + pnl of the
\* removed ones.
C17_CloseSettlesSum == [][C17_Step]_vars

\* close all has closed three positions of two symbols, one of them at a
\* loss and one at the cap, or close BTC/USDT has closed two positions and
\* left the ETH position.
C17_Witness ==
    /\ hpc = "reply" /\ hcmd.kind = "Closed"
    /\ \/ /\ hcmd.op = "close all"
          /\ users[huser].positions = <<>>
          /\ users[huser].usd = Dollars(200) + (Dollars(100) \div 11) * 21
          /\ Spot("BTC") = 55
       \/ /\ hcmd.op = "close symbol" /\ hcmd.crypto = "BTC"
          /\ Len(users[huser].positions) = 1
          /\ users[huser].usd = Dollars(200)
          /\ Spot("BTC") = 50

----------------------------------------------------------------------------
(* C18 *)

C18_Step ==
    \A k \in {"PositionNotFound", "PriceUnavailable", "Closed"} :
       Ran("close id", k) =>
          /\ hcmd'.id \notin PositionIds(users[huser]) <=> k = "PositionNotFound"
          /\ k # "Closed" => users' = users /\ disk' = disk /\ next_id' = next_id
          /\ k = "Closed" =>
                /\ users'[huser].positions
                      = SelectSeq(users[huser].positions,
                                  LAMBDA q : q.position_id # hcmd'.id)
                /\ Len(users'[huser].positions) = Len(users[huser].positions) - 1
                /\ users'[huser].usd
                      = users[huser].usd
                        + RecordOf(users[huser], hcmd'.id).margin
                        + UnrealizedPnl(RecordOf(users[huser], hcmd'.id),
                                        Spot(RecordOf(users[huser], hcmd'.id).crypto))
                /\ users'[huser].orders = users[huser].orders
                /\ OthersUnchanged

\* C18: close by id replies PositionNotFound exactly when the id matches
\* none of the caller's own open positions, also when it is the id of
\* another user's position or of a pending order; a close that fails, for
\* no match or for the spot lookup, leaves every account and the file
\* unchanged; a close that succeeds removes exactly the position with that
\* id from the caller's account, credits margin + pnl to the caller and
\* changes no other account.
C18_CloseById == [][C18_Step]_vars

\* The three replies of close by id.
C18_NotFoundOthers ==
    /\ hcmd.kind = "PositionNotFound" /\ hcmd.id = 4
    /\ 4 \in PositionIds(users["u2"])
C18_NotFoundPending ==
    /\ hcmd.kind = "PositionNotFound" /\ hcmd.id = 3
    /\ 3 \in OrderIds(users[huser])
C18_ClosedOne ==
    /\ hcmd.kind = "Closed" /\ hcmd.id = 1
    /\ PositionIds(users[huser]) = {0, 2}
    /\ users[huser].usd = (Dollars(100) \div 11) * 21

\* Close by id has been refused for the id of another user's position or of
\* the caller's pending order, or has closed the second of three positions.
C18_Witness ==
    /\ hpc = "reply" /\ hcmd.op = "close id" /\ huser = "u1"
    /\ C18_NotFoundOthers \/ C18_NotFoundPending \/ C18_ClosedOne

----------------------------------------------------------------------------
(* C19 *)

\* Position p with the trigger named by setting at amount, set now.
WithTrigger(p, setting, amount) ==
    IF setting = "tp"
    THEN [p EXCEPT !.take_profit = amount, !.tp_timestamp = now]
    ELSE [p EXCEPT !.stop_loss = amount, !.stop_timestamp = now]

\* The caller's account differs only in the position with the id named.
OnlyTriggerSet(before, after, id, setting, amount) ==
    /\ after.usd = before.usd
    /\ after.orders = before.orders
    /\ Len(after.positions) = Len(before.positions)
    /\ \A i \in DOMAIN before.positions :
          after.positions[i]
             = IF before.positions[i].position_id = id
               THEN WithTrigger(before.positions[i], setting, amount)
               ELSE before.positions[i]

C19_Step ==
    \A k \in {"InvalidAmount", "PositionNotFound", "SetTp", "SetStop"} :
       Ran("set", k) =>
          /\ k = "InvalidAmount" <=> hcmd'.amount <= 0
          /\ k = "PositionNotFound" <=>
                hcmd'.amount > 0 /\ hcmd'.id \notin PositionIds(users[huser])
          /\ k \in {"InvalidAmount", "PositionNotFound"} =>
                users' = users /\ disk' = disk /\ next_id' = next_id
          /\ k \in {"SetTp", "SetStop"} =>
                /\ k = "SetTp" <=> hcmd'.setting = "tp"
                /\ OnlyTriggerSet(users[huser], users'[huser], hcmd'.id,
                                  hcmd'.setting, hcmd'.amount)
                /\ OthersUnchanged

\* C19: set trigger replies InvalidAmount if the amount is <= 0 and
\* PositionNotFound if the id is not one of the caller's open positions, and
\* then changes nothing; if it succeeds, the named trigger of that position
\* has the amount and its timestamp is now, also if the trigger was set
\* before, and the other trigger and its timestamp, the opening time, entry,
\* margin, leverage, every other record and the balance are unchanged.
C19_SetTrigger == [][C19_Step]_vars

\* A take-profit has been set on a position that carries a stop-loss set in
\* an earlier bucket.
C19_Witness ==
    /\ hpc = "reply" /\ hcmd.op = "set" /\ hcmd.kind = "SetTp" /\ now > 0
    /\ RecordOf(users[huser], hcmd.id).take_profit = hcmd.amount
    /\ RecordOf(users[huser], hcmd.id).tp_timestamp = now
    /\ RecordOf(users[huser], hcmd.id).stop_loss # None
    /\ RecordOf(users[huser], hcmd.id).stop_timestamp < now

----------------------------------------------------------------------------
(* C20 *)

\* pct * margin * leverage, with pct = (current - entry) / entry for LONG
\* and (entry - current) / entry for SHORT.
PctMarginLev(p, current) ==
    IF p.side = LONG
    THEN ((current - p.entry) * p.lev) * (p.margin \div p.entry)
    ELSE ((p.entry - current) * p.lev) * (p.margin \div p.entry)

AllPrices == UNION {PricesOf(c) : c \in Symbols}

C20_Bounded ==
    \A u \in DOMAIN users : \A p \in Range(users[u].positions) :
       \A current \in AllPrices :
          /\ p.lev \in 1..50
          /\ calculate_pnl(p, current) >= -p.margin
          /\ PctMarginLev(p, current) >= -p.margin =>
                calculate_pnl(p, current) = PctMarginLev(p, current)
          /\ p.margin + calculate_pnl(p, current) >= 0

C20_Step ==
    Ran("close id", "Closed") =>
       /\ hcmd'.pnl >= -RecordOf(users[huser], hcmd'.id).margin
       /\ PctMarginLev(RecordOf(users[huser], hcmd'.id), Spot("BTC"))
             >= -RecordOf(users[huser], hcmd'.id).margin =>
                hcmd'.pnl = PctMarginLev(RecordOf(users[huser], hcmd'.id), Spot("BTC"))
       /\ users'[huser].usd - users[huser].usd
             = RecordOf(users[huser], hcmd'.id).margin + hcmd'.pnl
       /\ users'[huser].usd - users[huser].usd >= 0

\* C20: for either side, every entry, every leverage in 1..50 and every
\* current price, _calculate_pnl is at least -margin and equals
\* pct * margin * leverage whenever that is at least -margin, so that
\* margin + pnl is at least 0; and a close credits margin + that pnl.
C20_PnlBounded == [](C20_Bounded) /\ [][C20_Step]_vars

\* A position has been closed at a price where pct * margin * leverage is
\* below -margin: the PNL said is -margin and nothing is credited.
C20_Witness ==
    /\ hpc = "reply" /\ hcmd.op = "close id" /\ hcmd.kind = "Closed"
    /\ hcmd.pnl = -Dollars(100)
    /\ users[huser].usd = 0
    /\ disk.users[huser].positions = <<>>

----------------------------------------------------------------------------
(* C21 *)

\* The fraction q is E * (1 - 1/L) for sign = -1 and E * (1 + 1/L) for
\* sign = 1, that is E - E/L or E + E/L.
IsAdverseMove(q, E, L, sign) ==
    /\ q.den > 0
    /\ q.num * L = (E * L + sign * E) * q.den

\* C21: for every open position with leverage L in 1..50 and entry E > 0,
\* liquidation_price is E * (1 - 1/L) and below E if the position is LONG,
\* and E * (1 + 1/L) and above E if it is SHORT.
C21_LiquidationPrice ==
    \A u \in DOMAIN users : \A p \in Range(users[u].positions) :
       (p.lev \in 1..50 /\ p.entry > 0) =>
          IF p.side = LONG
          THEN /\ IsAdverseMove(liquidation_price(p), p.entry, p.lev, -1)
               /\ liquidation_price(p).num < p.entry * liquidation_price(p).den
          ELSE /\ IsAdverseMove(liquidation_price(p), p.entry, p.lev, 1)
               /\ liquidation_price(p).num > p.entry * liquidation_price(p).den

\* The inline sweep has tested a SHORT position of 50x against its
\* liquidation price and has left it open.
C21_Witness ==
    /\ hpc = "cmd" /\ now > 0
    /\ Len(users[huser].positions) = 1
    /\ users[huser].positions[1].side = SHORT
    /\ users[huser].positions[1].lev = 50
    /\ users[huser].positions[1].timestamp < now

----------------------------------------------------------------------------
(* C25 *)

\* The store that load_data returns for the document save_data writes now.
Reloaded == load_data(save_data(users, next_id))

SameRecords(a, b) ==
    /\ Len(a) = Len(b)
    /\ \A i \in DOMAIN a :
          /\ a[i] = b[i]
          /\ a[i].side = b[i].side
          /\ a[i].take_profit = b[i].take_profit
          /\ a[i].stop_loss = b[i].stop_loss
          /\ a[i].tp_timestamp = b[i].tp_timestamp
          /\ a[i].stop_timestamp = b[i].stop_timestamp

----------------------------------------------------------------------------
(* C24 *)

\* The documents the specifications load.
LoadedDocs == InitDocs \cup {NoLevDoc, PortfolioDoc}

\* The places (user, list, index) of the records of a document, and those
\* whose record lacks an id.
RecordSlots(doc) ==
    {<<u, "positions", i>> : u \in DOMAIN doc.users, i \in 1..MaxId + 1}
    \cup {<<u, "orders", i>> : u \in DOMAIN doc.users, i \in 1..MaxId + 1}

LacksId(doc) ==
    {x \in RecordSlots(doc) :
        /\ x[3] \in DOMAIN doc.users[x[1]][x[2]]
        /\ doc.users[x[1]][x[2]][x[3]].position_id = None}

\* init_store has something to backfill in the document.
NeedsBackfill(doc) ==
    \E u \in DOMAIN doc.users :
       \/ \E q \in Range(doc.users[u].positions) \cup Range(doc.users[u].orders) :
             q.position_id = None \/ q.timestamp = None
       \/ \E q \in Range(doc.users[u].positions) :
             \/ q.take_profit # None /\ q.tp_timestamp = None
             \/ q.stop_loss # None /\ q.stop_timestamp = None

C24_Loaded(doc) ==
    LET r == init_store(doc, 0)
        first == load_data(doc).next_id
    IN /\ \A u \in DOMAIN r.users : \A q \in Range(Records(r.users[u])) :
             q.position_id # None /\ q.timestamp # None
       /\ r.next_id = first + Cardinality(LacksId(doc))
       /\ {r.users[x[1]][x[2]][x[3]].position_id : x \in LacksId(doc)}
             = first .. (r.next_id - 1)
       /\ NeedsBackfill(doc) => r.disk = save_data(r.users, r.next_id)
       /\ ~NeedsBackfill(doc) => r.disk = doc

\* C24: for every document loaded, after init_store no position and no
\* order lacks its position_id or its timestamp, the ids given are the
\* values of next_id from the stored one on, one per record that lacked an
\* id, with next_id advanced by their number, and if anything was backfilled
\* the file holds the store as init_store returns it; and no record of a
\* reachable store lacks id or timestamp.
C24_BackfillOnLoad ==
    /\ \A doc \in LoadedDocs : C24_Loaded(doc)
    /\ \A u \in DOMAIN users : \A q \in Range(Records(users[u])) :
          q.position_id # None /\ q.timestamp # None

\* The store as init_store made it from the legacy document: ids 0 and 1
\* from the counter, which is now 2, the timestamps set, the file rewritten.
C24_Witness ==
    /\ now = 0 /\ next_id = 2
    /\ disk = save_data(users, next_id)
    /\ disk # LegacyDoc
    /\ users["u1"].positions[1].position_id = 0
    /\ users["u1"].positions[1].timestamp = 0
    /\ users["u1"].positions[1].tp_timestamp = 0
    /\ users["u2"].orders[1].position_id = 1
    /\ users["u2"].orders[1].timestamp = 0

----------------------------------------------------------------------------
(* C23 *)

\* C23: save_data is all or nothing: every step that changes DATA_FILE
\* leaves it holding the complete new state, so that wherever the process
\* stops the file holds the complete previous state or the complete new one,
\* never an empty or partly written document.
C23_AllOrNothing ==
    /\ [][disk' # disk => disk' = save_data(users', next_id')]_vars
    /\ [](hpc = "stopped" => disk \notin {EmptyFile, PartialFile})

----------------------------------------------------------------------------
(* C28 *)

\* The price of bucket k of the symbol of position p crosses the liquidation
\* price of p.
LiquidatingPrice(p, k) ==
    Crosses(hist[p.crypto][k + 1], liquidation_price(p), p.side = SHORT)

\* C28: should_liquidate answers true for an open position only if the price
\* of some bucket of [position.timestamp, now] crosses the liquidation price,
\* or, the window being empty or no candle having been returned, the spot
\* price does; the candle of a bucket before position.timestamp does not
\* make it answer true.
C28_LiquidationFromWindow ==
    \A o \in EarlyAnswers :
       \A u \in DOMAIN users : \A p \in Range(users[u].positions) :
          should_liquidate(p, hist, now, o) =>
             \/ \E k \in p.timestamp .. now : LiquidatingPrice(p, k)
             \/ /\ \/ p.timestamp >= now
                   \/ Returned(p.crypto, p.timestamp, now, hist, o) = {}
                /\ LiquidatingPrice(p, now)

----------------------------------------------------------------------------
(* C27 *)

\* Sample k lies in the window of the call and crosses the trigger price.
CrossingInWindow(k) ==
    /\ bloc.start_ts <= k.ts /\ k.ts <= bloc.stop_ts
    /\ IF bloc.above THEN k.high >= 50 ELSE k.low <= 50

\* The call has returned a value, having been answered at least one sample.
ReturnedWithSamples ==
    bpc = "return" /\ bloc.result # Err /\ bloc.returned # {}

\* The result is the smallest timestamp of the crossing samples of the
\* window, none if there is no such sample.
FirstCrossing ==
    IF \E k \in bloc.returned : CrossingInWindow(k)
    THEN /\ \E k \in bloc.returned : CrossingInWindow(k) /\ k.ts = bloc.result
         /\ \A k \in bloc.returned : CrossingInWindow(k) => bloc.result <= k.ts
    ELSE bloc.result = None

\* The requests made so far: the first begins at start_ts, each begins where
\* the one before ended, none is empty, ends after stop_ts or is longer than
\* 300 samples of the granularity.
ChunksContiguous ==
    \A i \in 1..Len(bloc.requests) :
       /\ bloc.requests[i].from =
             IF i = 1 THEN bloc.start_ts ELSE bloc.requests[i - 1].to
       /\ bloc.requests[i].from < bloc.requests[i].to
       /\ bloc.requests[i].to <= bloc.stop_ts
       /\ bloc.requests[i].to - bloc.requests[i].from <= 300 * bloc.granularity

\* A loop that ended without a result has asked up to stop_ts.
ChunksCover ==
    bpc = "return" /\ bloc.result = None /\ bloc.returned # {}
       => bloc.requests[Len(bloc.requests)].to = bloc.stop_ts

\* C27: _first_trigger_hit_timestamp with start_ts < stop_ts, answered at
\* least one sample, returns the smallest timestamp among the samples inside
\* [start_ts, stop_ts] that cross the price, and None if there is none, so
\* that a sample outside the window never causes a result; its requests
\* cover the window contiguously in chronological order, each at most 300
\* samples of the granularity long; and the loop terminates.
C27_FirstCrossing ==
    /\ [](ReturnedWithSamples => FirstCrossing)
    /\ [](ChunksContiguous /\ ChunksCover)
    /\ <>(bpc = "return")

\* The call has asked twice and returned the earlier of two crossing samples
\* of the second answer, having been answered a crossing sample from before
\* the window first.
C27_Witness ==
    /\ ReturnedWithSamples
    /\ Len(bloc.requests) = 2
    /\ \E k \in bloc.returned : k.ts < bloc.start_ts /\ ~bloc.above /\ k.low <= 50
    /\ \E k \in bloc.returned : CrossingInWindow(k) /\ k.ts > bloc.result
    /\ bloc.result > bloc.start_ts

----------------------------------------------------------------------------
(* C26 *)

\* The ids given out that no record of the store carries: the positions
\* that were closed or liquidated.
SettledIds == (0..(next_id - 1)) \ IdsOf(users)

\* The positions of account u that a step takes off the list of open ones.
Removed(u) == PositionIds(users[u]) \ PositionIds(users'[u])

\* A position that was closed or liquidated is never open again.
NeverReopened ==
    [][\A id \in SettledIds : id \notin IdsOf(users')]_vars

\* A position that the loop of the background sweep has closed or liquidated
\* is not settled a second time by handle_mention before the sweep has
\* written its survivors.
SettledOnce ==
    [][bpc = "assign" /\ bpc' = "assign"
          => Removed(bloc.uid) \cap IdsIn(bloc.pos) = {}]_vars

\* The sweep's assignment of its survivors takes away only positions that
\* its loop has closed or liquidated, and brings none back.
AssignsWhatItWalked ==
    [][bpc = "assign" /\ bpc' # "assign"
          => /\ Removed(bloc.uid) \subseteq IdsIn(bloc.pos)
             /\ PositionIds(users'[bloc.uid]) \subseteq PositionIds(users[bloc.uid])]_vars

\* C26: under any interleaving of the background sweep and handle_mention
\* every position is settled at most once, a closed or liquidated position
\* never reappears, and the sweep's assignment of its survivors neither
\* brings back a position closed meanwhile nor drops one opened meanwhile.
C26_SettledAtMostOnce ==
    NeverReopened /\ SettledOnce /\ AssignsWhatItWalked

----------------------------------------------------------------------------
(* C22 *)

\* No sweep and no command is under way.
Quiescent == hpc = "idle" /\ bpc \in {"sleep", "post"}

\* DATA_FILE holds the document of the store in memory.
Flushed == disk = save_data(users, next_id)

\* C22: once the sweeps and commands that changed a balance, a position, an
\* order or next_id have completed, DATA_FILE holds the store in memory; and
\* a sweep that changes nothing does not write.
C22_FlushedAfterBatch ==
    /\ [](Quiescent /\ disk.exists => Flushed)
    /\ [][SweepStep /\ users' = users /\ next_id' = next_id => disk' = disk]_vars

====
